---- MODULE Spec2Model ----
(***************************************************************************)
(* A model of the ray tracer kernel of ray-tracer-rs: f64 arithmetic,      *)
(* Tuple4, Matrix4x4 (det, cofactor, inverse), Ray, Sphere (intersect,     *)
(* normal_at), SphereIntersections::hit and World::intersect.              *)
(*                                                                         *)
(* An f64 is modelled as an exact value [n, d, x] standing for             *)
(* (n / d) * 10^x in canonical form, or as one of the three non-finite      *)
(* values NaN, +inf, -inf (d = 0).  Rounding of the mantissa is not        *)
(* modelled; NaN, the infinities, division by zero and the IEEE rules of   *)
(* comparison (every comparison with NaN is false) are.                    *)
(***************************************************************************)
EXTENDS Integers, Sequences, FiniteSets, TLC

VARIABLES
    hitXs,   \* the intersection collection handed to hit
    hitOut,  \* what hit returned
    mIn,     \* the matrix under test
    mInv,    \* what mIn.inverse() returned
    mOut,    \* what the operation applied to mIn and its inverse returned
    objects, \* the spheres: the objects of the World, or the one sphere under test
    call,    \* the latest call on a sphere or on the world, and what it returned
    light,   \* the light of the World: Option<PointLight>
    shade,   \* the latest shading call (lighting, prepare, shade_hit, color_at)
    canvas,  \* the Canvas: width, height and pixels
    ppm      \* the PPMEncoder at work: its input, its position and its writer

hitVars == <<hitXs, hitOut>>

matVars == <<mIn, mInv, mOut>>

worldVars == <<objects, call>>

shadeVars == <<light, shade>>

imgVars == <<canvas, ppm>>

vars == <<hitXs, hitOut, mIn, mInv, mOut, objects, call, light, shade, canvas, ppm>>

-----------------------------------------------------------------------------
(* Integer helpers *)

Abs(i) == IF i < 0 THEN -i ELSE i

Sign(i) == IF i < 0 THEN -1 ELSE IF i = 0 THEN 0 ELSE 1

Min(a, b) == IF a <= b THEN a ELSE b

RECURSIVE GCD(_, _)
GCD(a, b) == IF b = 0 THEN a ELSE GCD(b, a % b)

LCM(a, b) == (a \div GCD(a, b)) * b

RECURSIVE Pow10(_)
Pow10(k) == IF k = 0 THEN 1 ELSE 10 * Pow10(k - 1)

\* the largest magnitude a saturating product reports
Cap == 2^30

SatMul(x, y) == IF x = 0 \/ y = 0 THEN 0 ELSE IF x > Cap \div y THEN Cap ELSE x * y

RECURSIVE SatPow10(_)
SatPow10(k) == IF k = 0 THEN 1 ELSE SatMul(10, SatPow10(k - 1))

-----------------------------------------------------------------------------
(* f64 values *)

NaN == [n |-> 0, d |-> 0, x |-> 0]

PosInf == [n |-> 1, d |-> 0, x |-> 0]

NegInf == [n |-> -1, d |-> 0, x |-> 0]

IsNaN(a) == a.d = 0 /\ a.n = 0

IsInf(a) == a.d = 0 /\ a.n # 0

IsFinite(a) == a.d # 0

IsZero(a) == a.d # 0 /\ a.n = 0

Inf(s) == IF s < 0 THEN NegInf ELSE PosInf

\* the canonical form of (n / d) * 10^x, d > 0: n/d in lowest terms, d with
\* no factor 2 or 5, n with no factor 10
RECURSIVE Norm(_, _, _)
Norm(n, d, x) ==
    IF n = 0 THEN [n |-> 0, d |-> 1, x |-> 0]
    ELSE LET g == GCD(Abs(n), d) IN
         IF g > 1 THEN Norm(n \div g, d \div g, x)
         ELSE IF d % 2 = 0 THEN Norm(n * 5, d \div 2, x - 1)
         ELSE IF d % 5 = 0 THEN Norm(n * 2, d \div 5, x - 1)
         ELSE IF n % 10 = 0 THEN Norm(n \div 10, d, x + 1)
         ELSE [n |-> n, d |-> d, x |-> x]

\* the f64 of the integer i, of the fraction n/d, and of n * 10^x
FInt(i) == Norm(i, 1, 0)

FRat(n, d) == Norm(n, d, 0)

FDec(n, x) == Norm(n, 1, x)

FNeg(a) == [n |-> -a.n, d |-> a.d, x |-> a.x]

FAbs(a) == [n |-> Abs(a.n), d |-> a.d, x |-> a.x]

FMul(a, b) ==
    IF IsNaN(a) \/ IsNaN(b) THEN NaN
    ELSE IF IsInf(a) \/ IsInf(b)
         THEN IF a.n = 0 \/ b.n = 0 THEN NaN ELSE Inf(Sign(a.n) * Sign(b.n))
    ELSE IF a.n = 0 \/ b.n = 0 THEN FInt(0)
    ELSE LET g1 == GCD(Abs(a.n), b.d)
             g2 == GCD(Abs(b.n), a.d)
         IN Norm((a.n \div g1) * (b.n \div g2), (a.d \div g2) * (b.d \div g1), a.x + b.x)

FAdd(a, b) ==
    IF IsNaN(a) \/ IsNaN(b) THEN NaN
    ELSE IF IsInf(a) THEN (IF IsInf(b) /\ b.n # a.n THEN NaN ELSE a)
    ELSE IF IsInf(b) THEN b
    ELSE IF a.n = 0 THEN b
    ELSE IF b.n = 0 THEN a
    ELSE LET k == Min(a.x, b.x)
             l == LCM(a.d, b.d)
         IN Norm(a.n * (l \div a.d) * Pow10(a.x - k) + b.n * (l \div b.d) * Pow10(b.x - k), l, k)

FSub(a, b) == FAdd(a, FNeg(b))

FDiv(a, b) ==
    IF IsNaN(a) \/ IsNaN(b) THEN NaN
    ELSE IF IsInf(a) THEN (IF IsInf(b) THEN NaN ELSE Inf(a.n * (IF b.n < 0 THEN -1 ELSE 1)))
    ELSE IF IsInf(b) THEN FInt(0)
    ELSE IF b.n = 0 THEN (IF a.n = 0 THEN NaN ELSE Inf(a.n))
    ELSE IF a.n = 0 THEN FInt(0)
    ELSE LET g1 == GCD(Abs(a.n), Abs(b.n))
             g2 == GCD(a.d, b.d)
         IN Norm((a.n \div g1) * (b.d \div g2) * Sign(b.n),
                 (Abs(b.n) \div g1) * (a.d \div g2), a.x - b.x)

\* the order of two finite values with n > 0: -1, 0 or 1
CmpPos(a, b) ==
    LET k == Min(a.x, b.x)
        p == SatMul(SatMul(a.n, b.d), SatPow10(a.x - k))
        q == SatMul(SatMul(b.n, a.d), SatPow10(b.x - k))
    IN IF a = b THEN 0
       ELSE IF p = Cap /\ q = Cap
            THEN Sign(a.n * b.d * Pow10(a.x - k) - b.n * a.d * Pow10(b.x - k))
       ELSE Sign(p - q)

\* the order of two values neither of which is NaN: -1, 0 or 1
Cmp(a, b) ==
    IF a = b THEN 0
    ELSE IF IsInf(a) THEN a.n
    ELSE IF IsInf(b) THEN -b.n
    ELSE IF Sign(a.n) # Sign(b.n) THEN Sign(Sign(a.n) - Sign(b.n))
    ELSE IF a.n > 0 THEN CmpPos(a, b)
    ELSE CmpPos(FNeg(b), FNeg(a))

FLt(a, b) == ~IsNaN(a) /\ ~IsNaN(b) /\ Cmp(a, b) < 0

FLe(a, b) == ~IsNaN(a) /\ ~IsNaN(b) /\ Cmp(a, b) <= 0

FGt(a, b) == ~IsNaN(a) /\ ~IsNaN(b) /\ Cmp(a, b) > 0

FGe(a, b) == ~IsNaN(a) /\ ~IsNaN(b) /\ Cmp(a, b) >= 0

FEq(a, b) == ~IsNaN(a) /\ ~IsNaN(b) /\ a = b

\* f64::partial_cmp: "Less", "Equal", "Greater", or "None" when either is NaN
PartialCmp(a, b) ==
    IF IsNaN(a) \/ IsNaN(b) THEN "None"
    ELSE LET c == Cmp(a, b) IN
         IF c < 0 THEN "Less" ELSE IF c = 0 THEN "Equal" ELSE "Greater"

\* the largest r in lo..(hi - 1) with r * r <= v, given lo * lo <= v < hi * hi
RECURSIVE ISqrtIn(_, _, _)
ISqrtIn(v, lo, hi) ==
    IF hi - lo <= 1 THEN lo
    ELSE LET mid == (lo + hi) \div 2 IN
         IF mid * mid <= v THEN ISqrtIn(v, mid, hi) ELSE ISqrtIn(v, lo, mid)

ISqrt(v) == ISqrtIn(v, 0, 46341)

\* the number of digits kept after the point by the square root of a value
\* that is not a perfect square
SqrtDigits == 3

\* the scale 10^k, k <= SqrtDigits, that keeps v * scale * scale in range
RECURSIVE SqrtScale(_, _)
SqrtScale(v, k) ==
    IF k = 0 THEN 1
    ELSE IF v <= (Cap \div Pow10(2 * k)) THEN Pow10(k)
    ELSE SqrtScale(v, k - 1)

\* f64::sqrt: NaN for NaN and for negative values; exact for the square of a
\* representable value, and rounded down to SqrtDigits digits otherwise
FSqrt(a) ==
    IF IsNaN(a) THEN NaN
    ELSE IF IsInf(a) THEN (IF a.n > 0 THEN PosInf ELSE NaN)
    ELSE IF a.n < 0 THEN NaN
    ELSE IF a.n = 0 THEN FInt(0)
    ELSE LET odd == a.x % 2 = 1
             n == IF odd THEN a.n * 10 ELSE a.n
             x == IF odd THEN a.x - 1 ELSE a.x
             rn == ISqrt(n)
             rd == ISqrt(a.d)
         IN IF rn * rn = n /\ rd * rd = a.d
            THEN Norm(rn, rd, x \div 2)
            ELSE LET k == SqrtScale(n * a.d, SqrtDigits)
                 IN Norm(ISqrt(n * a.d * k * k), a.d * k, x \div 2)

FSquare(a) == FMul(a, a)

\* the product of k factors a, by squaring
RECURSIVE PowN(_, _)
PowN(a, k) ==
    IF k = 0 THEN FInt(1)
    ELSE IF k % 2 = 0 THEN FSquare(PowN(a, k \div 2))
    ELSE FMul(PowN(a, k - 1), a)

\* f64::powf for an exponent s whose value is a non-negative integer:
\* 1.0 for the exponent 0.0 and for the base 1.0, else the product
FPowf(a, s) ==
    IF IsZero(s) \/ a = FInt(1) THEN FInt(1)
    ELSE PowN(a, s.n * Pow10(s.x))

\* f64::clamp: NaN stays NaN
FClamp(a, min, max) == IF FLt(a, min) THEN min ELSE IF FGt(a, max) THEN max ELSE a

\* the numerator and denominator of a finite value as one fraction
NumOf(a) == IF a.x >= 0 THEN a.n * Pow10(a.x) ELSE a.n

DenOf(a) == IF a.x >= 0 THEN a.d ELSE a.d * Pow10(-a.x)

\* the integer nearest to num / den, a half going to the even one
RoundHalfEven(num, den) ==
    LET q == (2 * Abs(num) + den) \div (2 * den)
    IN IF (2 * Abs(num) + den) % (2 * den) = 0 /\ q % 2 = 1
       THEN Sign(num) * (q - 1) ELSE Sign(num) * q

\* round that sends a half to the even neighbour
FRoundHalfEven(a) == IF ~IsFinite(a) THEN a ELSE FInt(RoundHalfEven(NumOf(a), DenOf(a)))

\* the integer nearest to num / den, a half going away from zero
RoundHalfAway(num, den) == Sign(num) * ((2 * Abs(num) + den) \div (2 * den))

\* f64::round: NaN and the infinities stay
FRound(a) == IF ~IsFinite(a) THEN a ELSE FInt(RoundHalfAway(NumOf(a), DenOf(a)))

\* `as u8`: 0 for NaN, saturation at 0 and 255, else the integer part
AsU8(a) ==
    IF IsNaN(a) THEN 0
    ELSE IF FLe(a, FInt(0)) THEN 0
    ELSE IF FGe(a, FInt(255)) THEN 255
    ELSE NumOf(a) \div DenOf(a)

-----------------------------------------------------------------------------
(* Tuple4 *)

Tuple4_new(x, y, z, w) == [x |-> x, y |-> y, z |-> z, w |-> w]

\* the tuple of the four values r[0], r[1], r[2], r[3]
Tuple4_from(r) == Tuple4_new(r[0], r[1], r[2], r[3])

Tuple4_point(x, y, z) == Tuple4_new(x, y, z, FInt(1))

Tuple4_vector(x, y, z) == Tuple4_new(x, y, z, FInt(0))

\* a point and a vector of integer coordinates
Pt(x, y, z) == Tuple4_point(FInt(x), FInt(y), FInt(z))

Vec(x, y, z) == Tuple4_vector(FInt(x), FInt(y), FInt(z))

Tuple4_dot(a, b) ==
    FAdd(FAdd(FAdd(FMul(a.x, b.x), FMul(a.y, b.y)), FMul(a.z, b.z)), FMul(a.w, b.w))

Tuple4_add(a, b) == Tuple4_new(FAdd(a.x, b.x), FAdd(a.y, b.y), FAdd(a.z, b.z), FAdd(a.w, b.w))

Tuple4_sub(a, b) == Tuple4_new(FSub(a.x, b.x), FSub(a.y, b.y), FSub(a.z, b.z), FSub(a.w, b.w))

Tuple4_mul(a, k) == Tuple4_new(FMul(a.x, k), FMul(a.y, k), FMul(a.z, k), FMul(a.w, k))

\* Div<Elem>: self * (1.0 / other)
Tuple4_div(a, k) == Tuple4_mul(a, FDiv(FInt(1), k))

Tuple4_magnitude(a) == FSqrt(Tuple4_dot(a, a))

Tuple4_normalize(a) == Tuple4_div(a, Tuple4_magnitude(a))

Tuple4_negate(a) == Tuple4_new(FNeg(a.x), FNeg(a.y), FNeg(a.z), FNeg(a.w))

\* (n * 255.0).clamp(0.0, 255.0).round() as u8
clamp_to_u8(n) == AsU8(FRound(FClamp(FMul(n, FInt(255)), FInt(0), FInt(255))))

\* impl RGB for Tuple4
Tuple4_r(a) == clamp_to_u8(a.x)

Tuple4_g(a) == clamp_to_u8(a.y)

Tuple4_b(a) == clamp_to_u8(a.z)

\* Mul<Tuple4> for Elem: other * self
Elem_mul_tuple(k, a) == Tuple4_mul(a, k)

\* reflect: v - 2 * dot(v, n) * n
Tuple4_reflect(v, n) == Tuple4_sub(v, Tuple4_mul(n, FMul(FInt(2), Tuple4_dot(v, n))))

-----------------------------------------------------------------------------
(* Matrix2x2, Matrix3x3, Matrix4x4: data is the row-major array, indexed   *)
(* from 0                                                                  *)

to_index(size, y, x) == y * size + x

to_yx(size, i) == <<i \div size, i % size>>

\* iter().sum() of the terms f(0), ..., f(k - 1), from 0.0, left to right
RECURSIVE SumTo(_, _)
SumTo(f, k) == IF k = 0 THEN FInt(0) ELSE FAdd(SumTo(f, k - 1), f[k - 1])

\* the entries of the size x size array data whose row is not row and whose
\* column is not col, in the order of the array
Submatrix(data, size, row, col) ==
    LET kept == SelectSeq([i \in 1..(size * size) |-> i - 1],
                          LAMBDA i : to_yx(size, i)[1] # row /\ to_yx(size, i)[2] # col)
    IN [k \in 0..(Len(kept) - 1) |-> data[kept[k + 1]]]

Matrix2x2_det(m) == FSub(FMul(m[0], m[3]), FMul(m[1], m[2]))

Matrix3x3_submatrix(m, row, col) == Submatrix(m, 3, row, col)

Matrix3x3_minor(m, row, col) == Matrix2x2_det(Matrix3x3_submatrix(m, row, col))

Matrix3x3_cofactor(m, row, col) ==
    LET n == IF (row + col) % 2 = 1 THEN FInt(-1) ELSE FInt(1)
    IN FMul(n, Matrix3x3_minor(m, row, col))

Matrix3x3_det(m) == SumTo([i \in 0..2 |-> FMul(m[i], Matrix3x3_cofactor(m, 0, i))], 3)

PRECISION == FDec(1, -12)

Matrix4x4_new(data) == [i \in 0..15 |-> data[i + 1]]

\* a matrix of integer entries
MatI(ints) == [i \in 0..15 |-> FInt(ints[i + 1])]

Matrix4x4_zero == [i \in 0..15 |-> FInt(0)]

Matrix4x4_identity == [i \in 0..15 |-> IF i % (4 + 1) = 0 THEN FInt(1) ELSE FInt(0)]

Matrix4x4_translation(x, y, z) ==
    [Matrix4x4_identity EXCEPT ![3] = x, ![7] = y, ![11] = z]

Matrix4x4_scaling(x, y, z) ==
    [Matrix4x4_identity EXCEPT ![0] = x, ![5] = y, ![10] = z]

\* an angle is held as the pair of its cosine and its sine
Angle(c, s) == [cos |-> c, sin |-> s]

\* f64::cos and f64::sin
FCos(a) == a.cos

FSin(a) == a.sin

Matrix4x4_rotation_x(x) ==
    [Matrix4x4_identity EXCEPT ![5] = FCos(x), ![6] = FNeg(FSin(x)), ![9] = FSin(x), ![10] = FCos(x)]

Matrix4x4_rotation_y(y) ==
    [Matrix4x4_identity EXCEPT ![0] = FCos(y), ![2] = FSin(y), ![8] = FNeg(FSin(y)), ![10] = FCos(y)]

Matrix4x4_rotation_z(z) ==
    [Matrix4x4_identity EXCEPT ![0] = FCos(z), ![1] = FNeg(FSin(z)), ![4] = FSin(z), ![5] = FCos(z)]

Matrix4x4_shearing(xy, xz, yx, yz, zx, zy) ==
    [Matrix4x4_identity EXCEPT ![1] = xy, ![2] = xz, ![4] = yx, ![6] = yz, ![8] = zx, ![9] = zy]

Matrix4x4_get(m, y, x) == m[to_index(4, y, x)]

\* the swap of data[new_i] and data[old_i]
Swap(data, i, j) == [data EXCEPT ![i] = data[j], ![j] = data[i]]

\* the loop of transpose from (y, x) on: for y in 0..4, for x in y..4
RECURSIVE TransposeFrom(_, _, _)
TransposeFrom(data, y, x) ==
    IF y >= 4 THEN data
    ELSE IF x >= 4 THEN TransposeFrom(data, y + 1, y + 1)
    ELSE TransposeFrom(Swap(data, to_index(4, x, y), to_index(4, y, x)), y, x + 1)

\* the loops of transpose with the inner one from 0: for x in 0..4
RECURSIVE TransposeAllFrom(_, _, _)
TransposeAllFrom(data, y, x) ==
    IF y >= 4 THEN data
    ELSE IF x >= 4 THEN TransposeAllFrom(data, y + 1, 0)
    ELSE TransposeAllFrom(Swap(data, to_index(4, x, y), to_index(4, y, x)), y, x + 1)

\* transpose that swaps every pair of entries twice
TransposeFullLoops(m) == TransposeAllFrom(m, 0, 0)

Matrix4x4_transpose(m) == TransposeFrom(m, 0, 0)

Matrix4x4_submatrix(m, row, col) == Submatrix(m, 4, row, col)

Matrix4x4_minor(m, row, col) == Matrix3x3_det(Matrix4x4_submatrix(m, row, col))

\* cofactor without its sign
CofactorUnsigned(m, row, col) == Matrix4x4_minor(m, row, col)

Matrix4x4_cofactor(m, row, col) ==
    LET n == IF (row + col) % 2 = 1 THEN FInt(-1) ELSE FInt(1)
    IN FMul(n, Matrix4x4_minor(m, row, col))

Matrix4x4_det(m) == SumTo([i \in 0..3 |-> FMul(m[i], Matrix4x4_cofactor(m, 0, i))], 4)

\* (det.abs() >= PRECISION, det) for the determinant det
InvertibleWith(det) == <<FGe(FAbs(det), PRECISION), det>>

\* is_invertible_with_det whose test is det.abs() > PRECISION
StrictInvertibleWithDet(m) ==
    LET det == Matrix4x4_det(m) IN <<FGt(FAbs(det), PRECISION), det>>

\* let det = self.det(); (det.abs() >= PRECISION, det)
is_invertible_with_det(m) == InvertibleWith(Matrix4x4_det(m))

\* is_invertible as the determinant not being 0
IsInvertibleNonZeroDet(m) == ~IsZero(is_invertible_with_det(m)[2])

Matrix4x4_is_invertible(m) == is_invertible_with_det(m)[1]

NoMatrix == [tag |-> "None", val |-> Matrix4x4_zero]

SomeMatrix(m) == [tag |-> "Some", val |-> m]

\* the rest of inverse, given r = (is_invertible, det): None when not
\* invertible, else the matrix whose entry at index to_index(x, y) is
\* cofactor(y, x) / det
InverseWith(m, r) ==
    IF ~r[1] THEN NoMatrix
    ELSE SomeMatrix([i \in 0..15 |->
             FDiv(Matrix4x4_cofactor(m, to_yx(4, i)[2], to_yx(4, i)[1]), r[2])])

\* inverse whose entry at index (y, x) is cofactor(y, x) / det
InverseUntransposed(m) ==
    LET r == is_invertible_with_det(m) IN
    IF ~r[1] THEN NoMatrix
    ELSE SomeMatrix([i \in 0..15 |->
             FDiv(Matrix4x4_cofactor(m, to_yx(4, i)[1], to_yx(4, i)[2]), r[2])])

\* inverse: let (is_invertible, det) = self.is_invertible_with_det(); ...
Matrix4x4_inverse(m) == InverseWith(m, is_invertible_with_det(m))

\* a product that pairs row y of self with row x of rhs
MulRowByRow(a, b) ==
    [i \in 0..15 |->
        LET y == to_yx(4, i)[1]
            x == to_yx(4, i)[2]
        IN SumTo([n \in 0..3 |-> FMul(Matrix4x4_get(a, y, n), Matrix4x4_get(b, x, n))], 4)]

\* the product taken in the other order: rhs * self
MulSwapped(a, b) ==
    [i \in 0..15 |->
        LET y == to_yx(4, i)[1]
            x == to_yx(4, i)[2]
        IN SumTo([n \in 0..3 |-> FMul(Matrix4x4_get(b, y, n), Matrix4x4_get(a, n, x))], 4)]

\* Mul<Matrix4x4>: entry (y, x) is the sum over n of self.get(y, n) * rhs.get(n, x)
Matrix4x4_mul(a, b) ==
    [i \in 0..15 |->
        LET y == to_yx(4, i)[1]
            x == to_yx(4, i)[2]
        IN SumTo([n \in 0..3 |-> FMul(Matrix4x4_get(a, y, n), Matrix4x4_get(b, n, x))], 4)]

\* the product with a tuple that takes every tuple for a point (w = 1.0)
MulTupleAsPoint(m, t) ==
    Tuple4_from([i \in 0..3 |->
        FAdd(FAdd(FAdd(FMul(m[4 * i], t.x), FMul(m[4 * i + 1], t.y)),
                  FMul(m[4 * i + 2], t.z)), m[4 * i + 3])])

\* Mul<Tuple4>: row i of the matrix times (x, y, z, w)
Matrix4x4_mul_tuple(m, t) ==
    Tuple4_from([i \in 0..3 |->
        FAdd(FAdd(FAdd(FMul(m[4 * i], t.x), FMul(m[4 * i + 1], t.y)),
                  FMul(m[4 * i + 2], t.z)), FMul(m[4 * i + 3], t.w))])

-----------------------------------------------------------------------------
(* Ray *)

Ray_new(origin, direction) == [origin |-> origin, direction |-> direction]

Ray_position(r, t) == Tuple4_add(r.origin, Tuple4_mul(r.direction, t))

\* transform that normalizes the new direction
RayTransformNormalized(r, m) ==
    Ray_new(Matrix4x4_mul_tuple(m, r.origin),
            Tuple4_normalize(Matrix4x4_mul_tuple(m, r.direction)))

Ray_transform(r, m) ==
    Ray_new(Matrix4x4_mul_tuple(m, r.origin), Matrix4x4_mul_tuple(m, r.direction))

-----------------------------------------------------------------------------
(* Color, PointLight, Material.  A material's color and a light's intensity *)
(* are held as lighting reads them: x, y, z are the three channels.         *)

Color_new(r, g, b) == [r |-> r, g |-> g, b |-> b]

PointLight_new(position, intensity) == [position |-> position, intensity |-> intensity]

Material_new(color, ambient, diffuse, specular, shininess) ==
    [color |-> color, ambient |-> ambient, diffuse |-> diffuse,
     specular |-> specular, shininess |-> shininess]

Material_default ==
    Material_new(Tuple4_point(FInt(1), FInt(1), FInt(1)),
                 FDec(1, -1), FDec(9, -1), FDec(9, -1), FInt(200))

\* effective_color: the product of the color and the intensity, per channel
EffectiveColor(m, l) ==
    Tuple4_point(FMul(m.color.x, l.intensity.x), FMul(m.color.y, l.intensity.y),
                 FMul(m.color.z, l.intensity.z))

\* lightv = (*light.position() - point).normalize()
LightV(l, point) == Tuple4_normalize(Tuple4_sub(l.position, point))

\* reflect_dot_eye = (-1.0 * lightv).reflect(normalv).dot(&eyev)
ReflectDotEye(lightv, eyev, normalv) ==
    Tuple4_dot(Tuple4_reflect(Elem_mul_tuple(FInt(-1), lightv), normalv), eyev)

\* the specular term whose test is reflect_dot_eye < 0.0
SpecularStrict(m, l, reflect_dot_eye) ==
    IF FLt(reflect_dot_eye, FInt(0)) THEN Tuple4_point(FInt(0), FInt(0), FInt(0))
    ELSE Tuple4_mul(Tuple4_mul(l.intensity, m.specular), FPowf(reflect_dot_eye, m.shininess))

\* the specular term: black when reflect_dot_eye <= 0.0, else
\* intensity * specular * reflect_dot_eye.powf(shininess)
Specular(m, l, reflect_dot_eye) ==
    IF FLe(reflect_dot_eye, FInt(0)) THEN Tuple4_point(FInt(0), FInt(0), FInt(0))
    ELSE Tuple4_mul(Tuple4_mul(l.intensity, m.specular), FPowf(reflect_dot_eye, m.shininess))

\* the diffuse and specular terms without the test of light_dot_normal
DiffuseSpecularUnchecked(m, l, effective_color, lightv, eyev, normalv, light_dot_normal) ==
    [diffuse |-> Tuple4_mul(Tuple4_mul(effective_color, m.diffuse), light_dot_normal),
     specular |-> Specular(m, l, ReflectDotEye(lightv, eyev, normalv))]

\* the diffuse and specular terms: both black when light_dot_normal < 0.0
DiffuseSpecular(m, l, effective_color, lightv, eyev, normalv, light_dot_normal) ==
    IF FLt(light_dot_normal, FInt(0))
    THEN [diffuse |-> Tuple4_point(FInt(0), FInt(0), FInt(0)),
          specular |-> Tuple4_point(FInt(0), FInt(0), FInt(0))]
    ELSE [diffuse |-> Tuple4_mul(Tuple4_mul(effective_color, m.diffuse), light_dot_normal),
          specular |-> Specular(m, l, ReflectDotEye(lightv, eyev, normalv))]

\* the three terms of lighting, from effective_color and lightv on
LightingTerms(m, l, eyev, normalv, effective_color, lightv) ==
    [ambient |-> Tuple4_mul(effective_color, m.ambient),
     ds |-> DiffuseSpecular(m, l, effective_color, lightv, eyev, normalv,
                            Tuple4_dot(lightv, normalv))]

\* the ambient, diffuse and specular terms Material::lighting computes
Material_lighting_terms(m, l, point, eyev, normalv) ==
    LightingTerms(m, l, eyev, normalv, EffectiveColor(m, l), LightV(l, point))

\* out = ambient + diffuse + specular, with out.w = 1.0
LightingOut(terms) ==
    [Tuple4_add(Tuple4_add(terms.ambient, terms.ds.diffuse), terms.ds.specular)
        EXCEPT !.w = FInt(1)]

\* Material::lighting
Material_lighting(m, l, point, eyev, normalv) ==
    LightingOut(Material_lighting_terms(m, l, point, eyev, normalv))

-----------------------------------------------------------------------------
(* SphereIntersection, SphereIntersections *)

\* SphereIntersection::new: t and the reference to the sphere
SphereIntersection(t, sphere) == [t |-> t, sphere |-> sphere]

\* hit without its filter: every position is a candidate
HitFilterAll(xs) == [i \in 1..Len(xs) |-> i]

\* the indices (1-based positions) of xs that pass the filter x.t >= 0.0
HitFilter(xs) == SelectSeq([i \in 1..Len(xs) |-> i], LAMBDA i : FGe(xs[i].t, FInt(0)))

\* min_by that lets a later equal element replace the accumulator
RECURSIVE MinByLast(_, _, _, _)
MinByLast(xs, cand, acc, k) ==
    IF k > Len(cand) THEN [kind |-> "some", idx |-> acc]
    ELSE LET c == PartialCmp(xs[acc].t, xs[cand[k]].t) IN
         IF c = "None" THEN [kind |-> "panic", idx |-> 0]
         ELSE IF c \in {"Greater", "Equal"} THEN MinByLast(xs, cand, cand[k], k + 1)
         ELSE MinByLast(xs, cand, acc, k + 1)

\* Iterator::min_by over the positions cand of xs, from the accumulator acc:
\* the later element replaces the accumulator only when the accumulator is
\* Greater; a comparison that is None is the panic of expect
RECURSIVE MinByFrom(_, _, _, _)
MinByFrom(xs, cand, acc, k) ==
    IF k > Len(cand) THEN [kind |-> "some", idx |-> acc]
    ELSE LET c == PartialCmp(xs[acc].t, xs[cand[k]].t) IN
         IF c = "None" THEN [kind |-> "panic", idx |-> 0]
         ELSE IF c = "Greater" THEN MinByFrom(xs, cand, cand[k], k + 1)
         ELSE MinByFrom(xs, cand, acc, k + 1)

\* SphereIntersections::hit: a reference to an element of the collection
\* (its position), None, or a panic
Hit(xs) ==
    LET cand == HitFilter(xs) IN
    IF Len(cand) = 0 THEN [kind |-> "none", idx |-> 0]
    ELSE MinByFrom(xs, cand, cand[1], 2)

-----------------------------------------------------------------------------
(* Sphere.  A reference to a sphere is its position in the collection that *)
(* owns it.                                                                *)

Sphere_new ==
    [origin |-> Pt(0, 0, 0), radius |-> FInt(1), transform |-> Matrix4x4_identity,
     material |-> Material_default]

Sphere_set_transform(s, m) == [s EXCEPT !.transform = m]

Sphere_set_material(s, m) == [s EXCEPT !.material = m]

Sphere_get_material(s) == s.material

Panic == [kind |-> "panic", xs |-> <<>>]

\* a, b, c with discriminant = b * b - 4.0 * a * c
Discriminant(a, b, c) ==
    [a |-> a, b |-> b, c |-> c,
     discriminant |-> FSub(FMul(b, b), FMul(FMul(FInt(4), a), c))]

\* a, b and c of intersect, from the direction of the transformed ray and
\* from sphere_to_ray
Coefficients(direction, sphere_to_ray) ==
    Discriminant(Tuple4_dot(direction, direction),
                 FMul(FInt(2), Tuple4_dot(direction, sphere_to_ray)),
                 FSub(Tuple4_dot(sphere_to_ray, sphere_to_ray), FInt(1)))

\* the quadratic of the ray already in object space:
\* sphere_to_ray = transformed_ray.origin - self.origin
QuadraticOf(s, transformed_ray) ==
    Coefficients(transformed_ray.direction, Tuple4_sub(transformed_ray.origin, s.origin))

\* a, b, c and the discriminant of the quadratic of intersect, for the ray
\* moved into object space by inv
Quadratic(s, inv, ray) == QuadraticOf(s, Ray_transform(ray, inv))

\* the intersections with the far one first
RootsFarFirst(q, self) ==
    IF FLt(q.discriminant, FInt(0)) THEN <<>>
    ELSE LET t1 == FDiv(FAdd(FNeg(q.b), FSqrt(q.discriminant)), FMul(FInt(2), q.a))
             t2 == FDiv(FSub(FNeg(q.b), FSqrt(q.discriminant)), FMul(FInt(2), q.a))
         IN <<SphereIntersection(t1, self), SphereIntersection(t2, self)>>

\* the intersections when a tangent ray counts as a miss (discriminant <= 0.0)
RootsMissTangent(q, self) ==
    IF FLe(q.discriminant, FInt(0)) THEN <<>>
    ELSE LET t1 == FDiv(FSub(FNeg(q.b), FSqrt(q.discriminant)), FMul(FInt(2), q.a))
             t2 == FDiv(FAdd(FNeg(q.b), FSqrt(q.discriminant)), FMul(FInt(2), q.a))
         IN <<SphereIntersection(t1, self), SphereIntersection(t2, self)>>

\* the intersections of the quadratic q: none when discriminant < 0.0, else
\* the two at (-b - sqrt) / 2a and (-b + sqrt) / 2a, both referencing self
Roots(q, self) ==
    IF FLt(q.discriminant, FInt(0)) THEN <<>>
    ELSE LET t1 == FDiv(FSub(FNeg(q.b), FSqrt(q.discriminant)), FMul(FInt(2), q.a))
             t2 == FDiv(FAdd(FNeg(q.b), FSqrt(q.discriminant)), FMul(FInt(2), q.a))
         IN <<SphereIntersection(t1, self), SphereIntersection(t2, self)>>

\* intersect after self.transform.inverse() returned inv: the panic of expect
\* on None, else the intersections of the quadratic
IntersectWith(s, self, ray, inv) ==
    IF inv.tag = "None" THEN Panic
    ELSE [kind |-> "ok", xs |-> Roots(Quadratic(s, inv.val, ray), self)]

\* Sphere::intersect of the sphere s, referenced as self: a panic when the
\* transform has no inverse (expect), else the intersections of the quadratic
Sphere_intersect(s, self, ray) == IntersectWith(s, self, ray, Matrix4x4_inverse(s.transform))

NormalPanic == [kind |-> "panic", val |-> Vec(0, 0, 0)]

\* the normal that keeps the w of the transposed product
NormalOfKeptW(m, p) ==
    LET object_point == Matrix4x4_mul_tuple(m, p)
        object_normal == Tuple4_sub(object_point, Pt(0, 0, 0))
    IN Tuple4_normalize(Matrix4x4_mul_tuple(Matrix4x4_transpose(m), object_normal))

\* the normal at p for the inverse m of the transform: object_point = m * p,
\* object_normal = object_point - point(0, 0, 0), world_normal =
\* m.transpose() * object_normal with w set to 0.0, normalized
NormalOf(m, p) ==
    LET object_point == Matrix4x4_mul_tuple(m, p)
        object_normal == Tuple4_sub(object_point, Pt(0, 0, 0))
        world_normal == Matrix4x4_mul_tuple(Matrix4x4_transpose(m), object_normal)
    IN Tuple4_normalize([world_normal EXCEPT !.w = FInt(0)])

\* normal_at after self.transform.inverse() returned inv: the panic of unwrap
\* on None
NormalWith(inv, p) ==
    IF inv.tag = "None" THEN NormalPanic
    ELSE [kind |-> "ok", val |-> NormalOf(inv.val, p)]

\* normal_at that uses the transform in place of its inverse and never fails
NormalAtUnchecked(s, p) == [kind |-> "ok", val |-> NormalOf(s.transform, p)]

\* Sphere::normal_at: a panic when the transform has no inverse
Sphere_normal_at(s, p) == NormalWith(Matrix4x4_inverse(s.transform), p)

-----------------------------------------------------------------------------
(* Canvas: width, height and the Vec of pixels; pixels[i + 1] is the pixel *)
(* of index i                                                              *)

\* Tuple::new, the pixel type of the canvas
Tuple_new(x, y, z, w) == [x |-> x, y |-> y, z |-> z, w |-> w]

Tuple_zero == Tuple_new(FInt(0), FInt(0), FInt(0), FInt(0))

\* vec![Tuple::new(0.0, 0.0, 0.0, 0.0); width * height]
Canvas_new(width, height) ==
    [width |-> width, height |-> height, pixels |-> [i \in 1..(width * height) |-> Tuple_zero]]

\* to_index that refuses a column past the width
ToIndexChecked(c, pos) ==
    IF pos[1] >= c.width THEN Len(c.pixels) ELSE pos[2] * c.width + pos[1]

\* let (x, y) = pos; y * self.width + x
Canvas_to_index(c, pos) == pos[2] * c.width + pos[1]

\* self.pixels[i] = pixel: the panic of the index out of bounds, or the store
PutAt(c, pixel, i) ==
    IF i >= Len(c.pixels) THEN [kind |-> "panic", canvas |-> c]
    ELSE [kind |-> "ok", canvas |-> [c EXCEPT !.pixels[i + 1] = pixel]]

\* put_pixel that stores the pixel in the whole row of the index
PutPixelFillsRow(c, pixel, at) ==
    LET i == Canvas_to_index(c, at) IN
    IF i >= Len(c.pixels) THEN [kind |-> "panic", canvas |-> c]
    ELSE [kind |-> "ok",
          canvas |-> [c EXCEPT !.pixels =
                         [k \in 1..Len(c.pixels) |->
                             IF (k - 1) \div c.width = i \div c.width THEN pixel
                             ELSE c.pixels[k]]]]

Canvas_put_pixel(c, pixel, at) == PutAt(c, pixel, Canvas_to_index(c, at))

\* &self.pixels[i]: the panic of the index out of bounds, or the pixel
GetAt(c, i) ==
    IF i >= Len(c.pixels) THEN [kind |-> "panic", val |-> Tuple_zero]
    ELSE [kind |-> "ok", val |-> c.pixels[i + 1]]

Canvas_get_pixel(c, at) == GetAt(c, Canvas_to_index(c, at))

-----------------------------------------------------------------------------
(* PPMEncoder.  A string is the sequence of its characters; the writer is *)
(* the sequence of the strings that write_all has accepted.               *)

DigitChar(d) == <<"0", "1", "2", "3", "4", "5", "6", "7", "8", "9">>[d + 1]

\* "{}" of an unsigned integer: its decimal digits, no leading zero
RECURSIVE Digits(_)
Digits(n) == IF n < 10 THEN <<DigitChar(n)>> ELSE Digits(n \div 10) \o <<DigitChar(n % 10)>>

PPM_HEADER == <<"P", "3">>

PPM_MAX == <<"2", "5", "5">>

\* format!("{}\n{} {}\n{}\n", PPM_HEADER, width, height, PPM_MAX)
HeaderText(width, height) ==
    PPM_HEADER \o <<"\n">> \o Digits(width) \o <<" ">> \o Digits(height) \o <<"\n">>
        \o PPM_MAX \o <<"\n">>

\* "{} {} {}" of color.r(), color.g(), color.b()
TripleText(color) == Digits(color.r) \o <<" ">> \o Digits(color.g) \o <<" ">> \o Digits(color.b)

\* the string of the color of index i: "{} {} {}\n" when (i + 1) % width == 0,
\* else "{} {} {} "; width is not 0
ColorText(width, i, color) ==
    TripleText(color) \o (IF (i + 1) % width = 0 THEN <<"\n">> ELSE <<" ">>)

\* the encoder about to write the image: no write_all issued yet
Encoder(image) ==
    [op |-> "write", image |-> image, pc |-> "header", i |-> 0, out |-> <<>>,
     calls |-> 0, failed |-> 0, result |-> "running"]

\* the encoder after a write_all that accepted text, continuing at pc, i
Written(e, text, pc, i) ==
    [e EXCEPT !.out = Append(@, text), !.calls = @ + 1, !.pc = pc, !.i = i]

\* the encoder after a write_all that returned an error, which the ?
\* operator returns from write
Failed(e) ==
    [e EXCEPT !.calls = @ + 1, !.failed = e.calls + 1, !.pc = "done", !.result = "err"]

\* the encoder that goes on to the next color after a write_all error
FailedIgnored(e) ==
    [e EXCEPT !.calls = @ + 1, !.failed = e.calls + 1, !.i = @ + 1]

\* the encoder after the panic of (i + 1) % width with width == 0
Panicked(e) == [e EXCEPT !.pc = "done", !.result = "panic"]

\* the encoder after write returned Ok(())
Returned(e) == [e EXCEPT !.pc = "done", !.result = "ok"]

-----------------------------------------------------------------------------
(* World: objects is the Vec<Sphere>                                       *)

\* SphereIntersections::append: the entries of other after those of xs
SphereIntersections_append(xs, other) == xs \o other

\* xs with the entry e put after every entry whose t is <= e.t
RECURSIVE InsertByT(_, _)
InsertByT(xs, e) ==
    IF Len(xs) = 0 THEN <<e>>
    ELSE IF FLe(xs[Len(xs)].t, e.t) THEN Append(xs, e)
    ELSE Append(InsertByT(SubSeq(xs, 1, Len(xs) - 1), e), xs[Len(xs)])

RECURSIVE SortByT(_)
SortByT(xs) ==
    IF Len(xs) = 0 THEN <<>>
    ELSE InsertByT(SortByT(SubSeq(xs, 1, Len(xs) - 1)), xs[Len(xs)])

\* SphereIntersections::sort_by_t_ascending: a stable sort by t, ascending,
\* that fails explicitly (panics) when it has to compare a NaN
sort_by_t_ascending(xs) ==
    IF Len(xs) >= 2 /\ \E i \in 1..Len(xs) : IsNaN(xs[i].t) THEN Panic
    ELSE [kind |-> "ok", xs |-> SortByT(xs)]

RECURSIVE WorldIntersectFrom(_, _, _, _)

\* the body of the loop that keeps only the latest object's result
WorldIntersectLatestOnly(objs, r, i, all_intersections, intersections) ==
    IF intersections.kind = "panic" THEN Panic
    ELSE WorldIntersectFrom(objs, r, i + 1, intersections.xs)

\* the body of the loop of World::intersect for object i, whose intersect
\* returned intersections: all_intersections.append(intersections), then the
\* objects after i; a panic of the object's intersect ends the call
WorldIntersectStep(objs, r, i, all_intersections, intersections) ==
    IF intersections.kind = "panic" THEN Panic
    ELSE WorldIntersectFrom(objs, r, i + 1,
                            SphereIntersections_append(all_intersections, intersections.xs))

\* the loop of World::intersect from object i on, then the sort
WorldIntersectFrom(objs, r, i, all_intersections) ==
    IF i > Len(objs) THEN sort_by_t_ascending(all_intersections)
    ELSE WorldIntersectStep(objs, r, i, all_intersections, Sphere_intersect(objs[i], i, r))

World_intersect(objs, r) == WorldIntersectFrom(objs, r, 1, <<>>)

\* World::new and World::default (the material and the light aside)
World_new_objects == <<>>

World_default_objects ==
    << Sphere_new,
       Sphere_set_transform(Sphere_new, Matrix4x4_scaling(FRat(1, 2), FRat(1, 2), FRat(1, 2))) >>

\* World::new: light = None
NoLight == [tag |-> "None"]

SomeLight(l) == [tag |-> "Some", val |-> l]

\* World::default: the light
World_default_light ==
    PointLight_new(Pt(-10, 10, -10), Tuple4_point(FInt(1), FInt(1), FInt(1)))

\* the material of s1 of World::default
World_default_material ==
    [Material_default EXCEPT !.color = Tuple4_point(FDec(8, -1), FInt(1), FDec(6, -1)),
                             !.diffuse = FDec(7, -1), !.specular = FDec(2, -1)]

\* the Color whose channels are x, y and z of the tuple lighting returns
Color_of(t) == Color_new(t.x, t.y, t.z)

CompsPanic == [kind |-> "panic"]

\* PreparedComputations { t, object, point, eyev, normalv, inside } that keeps
\* the normal as normal_at returned it
\* PreparedComputations that negates the normal when not inside
CompsWithOutsideNegated(t, object, point, eyev, normalv, inside) ==
    [t |-> t, object |-> object, point |-> point, eyev |-> eyev,
     normalv |-> IF inside THEN normalv ELSE Elem_mul_tuple(FInt(-1), normalv),
     inside |-> inside]

CompsWithKeptNormal(t, object, point, eyev, normalv, inside) ==
    [t |-> t, object |-> object, point |-> point, eyev |-> eyev,
     normalv |-> normalv, inside |-> inside]

\* PreparedComputations { t, object, point, eyev, normalv, inside }, with
\* normalv = -1.0 * normalv when inside
CompsWith(t, object, point, eyev, normalv, inside) ==
    [t |-> t, object |-> object, point |-> point, eyev |-> eyev,
     normalv |-> IF inside THEN Elem_mul_tuple(FInt(-1), normalv) ELSE normalv,
     inside |-> inside]

\* PreparedComputations::new after normal_at returned normal: its panic, or
\* the computations with inside = normalv.dot(&eyev) < 0.0
CompsOf(intersection, point, eyev, normal) ==
    IF normal.kind = "panic" THEN CompsPanic
    ELSE [kind |-> "ok",
          val |-> CompsWith(intersection.t, intersection.sphere, point, eyev, normal.val,
                            FLt(Tuple4_dot(normal.val, eyev), FInt(0)))]

\* PreparedComputations::new from point on: eyev = -1.0 * ray.direction and
\* the normal of the intersection's sphere at point
CompsAt(objs, intersection, ray, point) ==
    CompsOf(intersection, point, Elem_mul_tuple(FInt(-1), ray.direction),
            Sphere_normal_at(objs[intersection.sphere], point))

\* PreparedComputations::new: point = ray.position(t)
PreparedComputations_new(objs, intersection, ray) ==
    CompsAt(objs, intersection, ray, Ray_position(ray, intersection.t))

NoColor == [tag |-> "None"]

SomeColor(c) == [tag |-> "Some", val |-> c]

\* shade_hit that returns Some black in place of None
ShadeHitBlack(objs, l, comps) ==
    IF l.tag = "Some"
    THEN SomeColor(Color_of(Material_lighting(Sphere_get_material(objs[comps.object]), l.val,
                                              comps.point, comps.eyev, comps.normalv)))
    ELSE SomeColor(Color_new(FInt(0), FInt(0), FInt(0)))

\* World::shade_hit: the lighting of the material of comps.object under the
\* light of the world, None without a light
World_shade_hit(objs, l, comps) ==
    IF l.tag = "Some"
    THEN SomeColor(Color_of(Material_lighting(Sphere_get_material(objs[comps.object]), l.val,
                                              comps.point, comps.eyev, comps.normalv)))
    ELSE NoColor

ColorPanic == [kind |-> "panic"]

ColorOk(c) == [kind |-> "ok", val |-> c]

\* Option::unwrap_or
UnwrapOr(o, default) == IF o.tag = "Some" THEN o.val ELSE default

\* the shading of color_at with unwrap in place of unwrap_or
ColorAtShadeUnwrap(objs, l, comps) ==
    IF comps.kind = "panic" \/ l.tag = "None" THEN ColorPanic
    ELSE ColorOk(World_shade_hit(objs, l, comps.val).val)

\* color_at once the computations are prepared:
\* self.shade_hit(&comps).unwrap_or(Color::new(0.0, 0.0, 0.0))
ColorAtShade(objs, l, comps) ==
    IF comps.kind = "panic" THEN ColorPanic
    ELSE ColorOk(UnwrapOr(World_shade_hit(objs, l, comps.val),
                          Color_new(FInt(0), FInt(0), FInt(0))))

\* color_at that shades the first intersection of the sorted collection
ColorAtFirst(objs, l, ray, xs, h) ==
    IF h.kind = "panic" THEN ColorPanic
    ELSE IF Len(xs) > 0
         THEN ColorAtShade(objs, l, PreparedComputations_new(objs, xs[1], ray))
    ELSE ColorOk(Color_new(FInt(0), FInt(0), FInt(0)))

\* color_at once hit returned h: the shading of the hit, black without one
ColorAtHit(objs, l, ray, xs, h) ==
    IF h.kind = "panic" THEN ColorPanic
    ELSE IF h.kind = "some"
         THEN ColorAtShade(objs, l, PreparedComputations_new(objs, xs[h.idx], ray))
    ELSE ColorOk(Color_new(FInt(0), FInt(0), FInt(0)))

\* color_at once self.intersect(ray) returned r
ColorAtXs(objs, l, ray, r) ==
    IF r.kind = "panic" THEN ColorPanic
    ELSE ColorAtHit(objs, l, ray, r.xs, Hit(r.xs))

\* World::color_at
World_color_at(objs, l, ray) == ColorAtXs(objs, l, ray, World_intersect(objs, ray))

-----------------------------------------------------------------------------
(* Inputs *)

MaxLen == 4

MaxCoord == 1

Coords == -MaxCoord..MaxCoord

TVals == {FInt(-3), FInt(0), FInt(2), FInt(5), FInt(7), NaN}

HitSpheres == {1}

HitInputs ==
    UNION {[1..k -> {SphereIntersection(t, s) : t \in TVals, s \in HitSpheres}] : k \in 0..MaxLen}

\* the matrices of the tests of matrix.rs
TestMatrices ==
    { MatI(<<-5, 2, 6, -8, 1, -5, 1, 8, 7, 7, -6, -7, 1, -3, 7, 4>>),
      MatI(<<-2, -8, 3, 5, -3, 1, 7, 3, 1, 2, -9, 6, -6, 7, 7, -9>>),
      MatI(<<6, 4, 4, 4, 5, 5, 7, 6, 4, -9, 3, -7, 9, 1, 7, -6>>),
      MatI(<<-4, 2, -2, -3, 9, 6, 2, 6, 0, -5, 1, -5, 0, 0, 0, 0>>) }

ScaleVals ==
    { FInt(0), FInt(1), FInt(2), FInt(-1), FRat(1, 2),
      FDec(1, -4), FDec(-1, -4), FDec(1, -5), FDec(1, 4), FDec(1, 5) }

Scalings == {Matrix4x4_scaling(x, y, z) : x \in ScaleVals, y \in ScaleVals, z \in ScaleVals}

Translations ==
    {Matrix4x4_translation(FInt(x), FInt(y), FInt(z)) : x \in Coords, y \in Coords, z \in Coords}

ShearVals == {FInt(0), FInt(1)}

Shearings ==
    {Matrix4x4_shearing(a, b, c, d, e, f) :
        a \in ShearVals, b \in ShearVals, c \in ShearVals,
        d \in ShearVals, e \in ShearVals, f \in ShearVals}

\* translation * scaling * shearing chains
Chains ==
    {Matrix4x4_mul(Matrix4x4_mul(t, s), h) :
        t \in {Matrix4x4_translation(FInt(1), FInt(-1), FInt(0)),
               Matrix4x4_translation(FInt(0), FInt(2), FInt(3))},
        s \in {Matrix4x4_scaling(FInt(2), FRat(1, 2), FInt(-1)),
               Matrix4x4_scaling(FInt(3), FInt(1), FRat(1, 3))},
        h \in Shearings}

\* the transforms given to the sphere under test; the last four are singular
SphereTransforms ==
    { Matrix4x4_identity,
      Matrix4x4_scaling(FInt(2), FInt(2), FInt(2)),
      Matrix4x4_scaling(FRat(1, 2), FRat(1, 2), FRat(1, 2)),
      Matrix4x4_scaling(FInt(1), FRat(1, 2), FInt(1)),
      Matrix4x4_scaling(FInt(-1), FInt(1), FInt(3)),
      Matrix4x4_translation(FInt(5), FInt(0), FInt(0)),
      Matrix4x4_translation(FInt(0), FInt(1), FInt(0)),
      Matrix4x4_shearing(FInt(1), FInt(0), FInt(0), FInt(0), FInt(0), FInt(0)),
      Matrix4x4_mul(Matrix4x4_translation(FInt(0), FInt(0), FInt(1)),
                    Matrix4x4_scaling(FInt(1), FInt(2), FInt(2))),
      Matrix4x4_scaling(FInt(1), FInt(0), FInt(1)),
      Matrix4x4_zero,
      Matrix4x4_shearing(FInt(1), FInt(0), FInt(1), FInt(0), FInt(0), FInt(0)),
      Matrix4x4_scaling(FDec(1, -4), FDec(1, -4), FDec(1, -5)) }

\* rays from a point on or beside the z axis, in every direction of Coords,
\* the zero direction included
RayOrigins == {Pt(0, y, z) : y \in 0..2, z \in {-5, 0, 5}}

RayDirections == {Vec(x, y, z) : x \in Coords, y \in Coords, z \in Coords}

Rays == {Ray_new(o, d) : o \in RayOrigins, d \in RayDirections}

NormalPoints == {Pt(x, y, z) : x \in 0..1, y \in 0..1, z \in -1..1}

MaxObjects == 2

\* the transforms of the objects of a world; the last one is singular
WorldTransforms ==
    { Matrix4x4_identity,
      Matrix4x4_scaling(FRat(1, 2), FRat(1, 2), FRat(1, 2)),
      Matrix4x4_translation(FInt(0), FInt(0), FInt(1)),
      Matrix4x4_scaling(FInt(1), FInt(0), FInt(1)) }

Worlds ==
    UNION {[1..k -> {Sphere_set_transform(Sphere_new, m) : m \in WorldTransforms}] :
              k \in 0..MaxObjects}

WorldRays ==
    {Ray_new(o, d) :
        o \in {Pt(0, 0, -5), Pt(0, 1, -5), Pt(0, 0, 0)},
        d \in {Vec(0, 0, 1), Vec(0, 0, -1), Vec(0, 1, 1), Vec(0, 0, 0)}}

White == Tuple4_point(FInt(1), FInt(1), FInt(1))

Black == Tuple4_point(FInt(0), FInt(0), FInt(0))

\* the arguments of one call of lighting
LightingArgs(m, l, point, eyev, normalv) ==
    [m |-> m, l |-> l, point |-> point, eyev |-> eyev, normalv |-> normalv]

\* the default material, lit and seen along the z axis as in the tests of
\* materials.rs
LightingOnAxis ==
    {LightingArgs(Material_default, PointLight_new(Pt(0, 0, z), White), Pt(0, 0, 0), e, n) :
        z \in {-10, 10},
        e \in {Vec(0, 0, -1), Vec(0, 0, 1), Vec(1, 0, 0)},
        n \in {Vec(0, 0, -1), Vec(0, 0, 1)}}

\* materials of shininess 2 and 0
LightingMaterials ==
    { Material_new(Tuple4_point(FDec(8, -1), FInt(1), FDec(6, -1)),
                   FDec(1, -1), FDec(7, -1), FDec(2, -1), FInt(2)),
      Material_new(White, FInt(1), FDec(9, -1), FDec(9, -1), FInt(0)) }

\* lights in front of, beside and behind the surface at the origin, one of
\* them at the lit point itself
LightingLights ==
    {PointLight_new(p, i) :
        p \in {Pt(0, 3, -4), Pt(0, 0, -10), Pt(0, 5, 0), Pt(0, 3, 4), Pt(0, 0, 0)},
        i \in {White, Tuple4_point(FRat(1, 2), FInt(1), FInt(0))}}

\* eye vectors: unit vectors in the y-z plane and the zero vector
LightingEyes ==
    { Vec(0, 0, -1), Vec(0, 0, 1), Vec(0, 0, 0),
      Tuple4_vector(FInt(0), FDec(6, -1), FDec(-8, -1)),
      Tuple4_vector(FInt(0), FDec(8, -1), FDec(-6, -1)) }

LightingOffAxis ==
    {LightingArgs(m, l, Pt(0, 0, 0), e, n) :
        m \in LightingMaterials, l \in LightingLights, e \in LightingEyes,
        n \in {Vec(0, 0, -1), Vec(0, 0, 1)}}

LightingInputs == LightingOnAxis \cup LightingOffAxis

\* the material m with ambient 1, as the tests of color_at set it
Ambient1(m) == [m EXCEPT !.ambient = FInt(1)]

\* the spheres of a shaded world: the two spheres of World::default with
\* ambient 1, and a sphere whose transform is singular
ShadeSpheres ==
    { Sphere_set_material(Sphere_new, Ambient1(World_default_material)),
      Sphere_set_material(
          Sphere_set_transform(Sphere_new, Matrix4x4_scaling(FRat(1, 2), FRat(1, 2), FRat(1, 2))),
          Ambient1(Material_default)),
      Sphere_set_transform(Sphere_new, Matrix4x4_scaling(FInt(1), FInt(0), FInt(1))) }

ShadeWorlds == UNION {[1..k -> ShadeSpheres] : k \in 0..MaxObjects}

\* no light, or a white light on the z axis on either side of the spheres
ShadeLights ==
    {NoLight} \cup {SomeLight(PointLight_new(Pt(0, 0, z), White)) : z \in {-10, 10}}

\* rays along the z axis, from outside, from the centre and from between the
\* two spheres of World::default, and a ray without direction
AxisRays ==
    {Ray_new(Tuple4_point(FInt(0), FInt(0), z), d) :
        z \in {FInt(-5), FInt(0), FDec(75, -2)},
        d \in {Vec(0, 0, 1), Vec(0, 0, -1)}}
    \cup {Ray_new(Pt(0, 0, -5), Vec(0, 0, 0))}

\* the rays of color_at: those along the axis and one that misses
ShadeRays == AxisRays \cup {Ray_new(Pt(0, 0, -5), Vec(0, 1, 0))}

\* t = 0 puts the point of a ray from the origin at the centre of the spheres
PrepareTs == {FInt(4), FInt(1), FInt(0)}

\* the worlds of a sequence of calls: none, one or both spheres of
\* World::default with ambient 1, in either order, or a singular sphere
FrameWorlds ==
    {w \in ShadeWorlds :
        \/ Len(w) = 0
        \/ Len(w) = 1 /\ w[1].material.color # White
        \/ Len(w) = 1 /\ w[1].transform = Matrix4x4_scaling(FInt(1), FInt(0), FInt(1))
        \/ Len(w) = 2 /\ w[1].material # w[2].material /\ w[1].transform # w[2].transform
                      /\ \A i \in 1..2 : w[i].material.ambient = FInt(1)}

\* a ray that hits from outside, one from between the two spheres, one that
\* misses
FrameRays ==
    { Ray_new(Pt(0, 0, -5), Vec(0, 0, 1)),
      Ray_new(Tuple4_point(FInt(0), FInt(0), FDec(75, -2)), Vec(0, 0, -1)),
      Ray_new(Pt(0, 0, -5), Vec(0, 1, 0)) }

\* the permutations of 0..(n - 1)
Perms(n) ==
    {p \in [0..(n - 1) -> 0..(n - 1)] : \A i, j \in 0..(n - 1) : i # j => p[i] # p[j]}

\* the matrices with one entry per row and per column, row y holding y + 2
PermMatrices ==
    {[i \in 0..15 |-> IF p[i \div 4] = i % 4 THEN FInt(i \div 4 + 2) ELSE FInt(0)] :
        p \in Perms(4)}

\* matrices of integer entries: those of the tests, the translations, the
\* shearings and the permutation matrices, the identity among them
OpsMatrices == TestMatrices \cup Translations \cup Shearings \cup PermMatrices

\* the second operand of a product
OpsOperands ==
    { Matrix4x4_identity,
      MatI(<<-2, 1, 2, 3, 3, 2, 1, -1, 4, 3, 6, 5, 1, 2, 7, 8>>),
      Matrix4x4_translation(FInt(1), FInt(-1), FInt(0)),
      Matrix4x4_scaling(FInt(2), FRat(1, 2), FInt(-1)),
      Matrix4x4_shearing(FInt(1), FInt(0), FInt(0), FInt(0), FInt(0), FInt(0)),
      Matrix4x4_zero }

\* points (w = 1) and vectors (w = 0)
OpsTuples ==
    {Tuple4_new(FInt(x), FRat(y, 2), FInt(-3), FInt(w)) :
        x \in Coords, y \in Coords, w \in 0..1}

\* a quarter turn, a half turn, and the angles of the 3-4-5 triangle
Angles ==
    { Angle(FInt(0), FInt(1)), Angle(FInt(-1), FInt(0)),
      Angle(FDec(6, -1), FDec(8, -1)), Angle(FDec(8, -1), FDec(-6, -1)) }

Rotations ==
    UNION {{Matrix4x4_rotation_x(a), Matrix4x4_rotation_y(a), Matrix4x4_rotation_z(a)} :
              a \in Angles}

\* the transforms of the tests of ray.rs, the translations, the rotations,
\* the translation * scaling * shearing chains, and rotation * chain products
RayTransforms ==
    { Matrix4x4_translation(FInt(3), FInt(4), FInt(5)),
      Matrix4x4_scaling(FInt(2), FInt(3), FInt(4)) }
    \cup Translations \cup Rotations \cup Chains
    \cup {Matrix4x4_mul(r, Matrix4x4_mul(Matrix4x4_translation(FInt(1), FInt(-1), FInt(0)),
                                         Matrix4x4_scaling(FInt(2), FRat(1, 2), FInt(-1)))) :
              r \in Rotations}

\* rays whose origin is a point and whose direction is a vector
RayInputs ==
    {Ray_new(o, d) :
        o \in {Pt(1, 2, 3), Pt(0, 0, -5)},
        d \in {Vec(0, 1, 0), Vec(1, -1, 2), Vec(0, 0, 0)}}

MaxWidth == 2

MaxHeight == 2

\* the put_pixel calls of one behaviour
MaxPuts == 2

\* the pixels put on a canvas
Pixels ==
    { Tuple_new(FInt(1), FInt(0), FInt(0), FInt(0)),
      Tuple_new(FInt(0), FRat(1, 2), FInt(1), FInt(0)) }

\* the positions of the calls that may leave the canvas
AnyColumns == 0..(MaxWidth * MaxHeight)

AnyRows == 0..MaxHeight

\* the canvas of width * height pixels after put_pixel has given the pixel
\* of index i the color (i + 1, 0, 0)
Marked(width, height) ==
    [width |-> width, height |-> height,
     pixels |-> [i \in 1..(width * height) |-> Tuple_new(FInt(i), FInt(0), FInt(0), FInt(0))]]

\* the colors of an image to encode
MaxColors == 4

\* the colors of the tests of ppm.rs
PpmColors == { [r |-> 255, g |-> 0, b |-> 0], [r |-> 0, g |-> 128, b |-> 0] }

\* images of 0..MaxWidth by 0..MaxHeight with up to MaxColors colors, as
\* many as width * height or not
PpmImages ==
    {[width |-> w, height |-> h, colors |-> cs] :
        w \in 0..MaxWidth, h \in 0..MaxHeight,
        cs \in UNION {[1..k -> PpmColors] : k \in 0..MaxColors}}
    \cup {[width |-> 10, height |-> 3, colors |-> <<>>]}

\* how far past 0.0 and 1.0 the channel values go
MaxOver == 1

\* channel values: quarters from -MaxOver to 1 + MaxOver, every n with
\* 255 * n a multiple of 1/4 in between, NaN and the infinities
ChannelInputs ==
    {FRat(k, 4) : k \in (-4 * MaxOver)..(4 + 4 * MaxOver)}
    \cup {FRat(k, 1020) : k \in 0..1020}
    \cup {NaN, PosInf, NegInf}

MatInputs == TestMatrices \cup Scalings \cup Translations \cup Shearings \cup Chains

-----------------------------------------------------------------------------
(* Results and idle values *)

NoCall == [kind |-> "nocall", idx |-> 0]

MatNotCalled == [tag |-> "NotCalled", val |-> Matrix4x4_zero]

MatNoOp == [op |-> "none", res |-> MatNotCalled]

\* the record of an operation on mIn: its name, its arguments, its result
Op(op, args, val) == [op |-> op, res |-> [args |-> args, val |-> val]]

HitIdle == hitXs = <<>> /\ hitOut = NoCall

NoRay == Ray_new(Pt(0, 0, 0), Vec(0, 0, 0))

\* the record of a call: the operation, the sphere it was made on (0 for the
\* world), its argument, and the outcome
Call(op, self, ray, point, kind, xs, val) ==
    [op |-> op, self |-> self, ray |-> ray, point |-> point,
     kind |-> kind, xs |-> xs, val |-> val]

NoCallYet == Call("none", 0, NoRay, Pt(0, 0, 0), "ok", <<>>, Vec(0, 0, 0))

\* the records of the calls made by the actions
SetTransformCall(self) == Call("set_transform", self, NoRay, Pt(0, 0, 0), "ok", <<>>, Vec(0, 0, 0))

IntersectCall(op, self, ray, r) == Call(op, self, ray, Pt(0, 0, 0), r.kind, r.xs, Vec(0, 0, 0))

NormalAtCall(self, p, r) == Call("normal_at", self, NoRay, p, r.kind, <<>>, r.val)

WorldIdle == objects = <<>> /\ call = NoCallYet

MatIdle == mIn = Matrix4x4_identity /\ mInv = MatNotCalled /\ mOut = MatNoOp

\* the record of a shading call: the operation, its arguments and the outcome
Shade(op, args, out) == [op |-> op, args |-> args, out |-> out]

NoShadeYet == Shade("none", <<>>, <<>>)

ShadeIdle == light = NoLight /\ shade = NoShadeYet

\* no canvas yet, and no encoder at work
NoCanvas == [width |-> 0, height |-> 0, pixels |-> <<>>]

NoPpm == [op |-> "none"]

ImgIdle == canvas = NoCanvas /\ ppm = NoPpm

\* the record of a call of lighting: the terms it computed and its result
LightingCall(args, terms) ==
    Shade("lighting", args, [terms |-> terms, color |-> LightingOut(terms)])

-----------------------------------------------------------------------------
(* SphereIntersections::hit on the collections of HitInputs *)

InitHit ==
    /\ ImgIdle
    /\ hitXs \in HitInputs
    /\ hitOut = NoCall
    /\ MatIdle
    /\ WorldIdle
    /\ ShadeIdle

\* xs.hit()
CallHit ==
    /\ hitOut = NoCall
    /\ hitOut' = Hit(hitXs)
    /\ UNCHANGED <<hitXs, matVars, worldVars, shadeVars, imgVars>>

NextHit == CallHit

SpecHit == InitHit /\ [][NextHit]_vars

-----------------------------------------------------------------------------
(* Matrix4x4 operations on the matrices of MatInputs *)

InitMatrix ==
    /\ ImgIdle
    /\ mIn \in MatInputs
    /\ mInv = MatNotCalled
    /\ mOut = MatNoOp
    /\ HitIdle
    /\ WorldIdle
    /\ ShadeIdle

\* mIn.inverse()
CallInverse ==
    /\ mInv = MatNotCalled
    /\ mInv' = Matrix4x4_inverse(mIn)
    /\ UNCHANGED <<mIn, mOut, hitVars, worldVars, shadeVars, imgVars>>

\* mIn.inverse().unwrap().inverse()
CallInverseTwice ==
    /\ mInv.tag = "Some"
    /\ mOut = MatNoOp
    /\ mOut' = [op |-> "inverse", res |-> Matrix4x4_inverse(mInv.val)]
    /\ UNCHANGED <<mIn, mInv, hitVars, worldVars, shadeVars, imgVars>>

\* mIn * mIn.inverse().unwrap()
CallMulInverse ==
    /\ mInv.tag = "Some"
    /\ mOut = MatNoOp
    /\ mOut' = [op |-> "mul", res |-> SomeMatrix(Matrix4x4_mul(mIn, mInv.val))]
    /\ UNCHANGED <<mIn, mInv, hitVars, worldVars, shadeVars, imgVars>>

\* mIn.is_invertible()
CallIsInvertible ==
    /\ mOut = MatNoOp
    /\ mOut' = [op |-> "is_invertible",
                res |-> [tag |-> "Bool", val |-> Matrix4x4_is_invertible(mIn)]]
    /\ UNCHANGED <<mIn, mInv, hitVars, worldVars, shadeVars, imgVars>>

NextMatrix == CallInverse \/ CallInverseTwice \/ CallMulInverse \/ CallIsInvertible

SpecMatrix == InitMatrix /\ [][NextMatrix]_vars

-----------------------------------------------------------------------------
(* One sphere: set_transform, intersect, normal_at *)

InitSphere ==
    /\ ImgIdle
    /\ objects = <<Sphere_new>>
    /\ call = NoCallYet
    /\ HitIdle
    /\ MatIdle
    /\ ShadeIdle

\* s.set_transform(m)
SetTransform ==
    \E m \in SphereTransforms :
        /\ objects' = [objects EXCEPT ![1] = Sphere_set_transform(@, m)]
        /\ call' = SetTransformCall(1)
        /\ UNCHANGED <<hitVars, matVars, shadeVars, imgVars>>

\* s.intersect(&ray), on the sphere as constructed or as just transformed
Intersect ==
    /\ call.op \in {"none", "set_transform"}
    /\ \E ray \in Rays :
        /\ call' = IntersectCall("intersect", 1, ray, Sphere_intersect(objects[1], 1, ray))
        /\ UNCHANGED <<objects, hitVars, matVars, shadeVars, imgVars>>

\* s.normal_at(p), on the sphere as constructed or as just transformed
NormalAt ==
    /\ call.op \in {"none", "set_transform"}
    /\ \E p \in NormalPoints :
        /\ call' = NormalAtCall(1, p, Sphere_normal_at(objects[1], p))
        /\ UNCHANGED <<objects, hitVars, matVars, shadeVars, imgVars>>

NextSphere == SetTransform \/ Intersect \/ NormalAt

SpecSphere == InitSphere /\ [][NextSphere]_vars

-----------------------------------------------------------------------------
(* A world of up to MaxObjects spheres: World::intersect *)

InitWorld ==
    /\ ImgIdle
    /\ objects \in Worlds
    /\ call = NoCallYet
    /\ HitIdle
    /\ MatIdle
    /\ ShadeIdle

\* world.objects[i].set_transform(m)
WorldSetTransform ==
    \E i \in 1..Len(objects) : \E m \in WorldTransforms :
        /\ objects' = [objects EXCEPT ![i] = Sphere_set_transform(@, m)]
        /\ call' = SetTransformCall(i)
        /\ UNCHANGED <<hitVars, matVars, shadeVars, imgVars>>

\* world.intersect(&r), on the world as constructed or as just changed
WorldIntersect ==
    /\ call.op \in {"none", "set_transform"}
    /\ \E r \in WorldRays :
        /\ call' = IntersectCall("world_intersect", 0, r, World_intersect(objects, r))
        /\ UNCHANGED <<objects, hitVars, matVars, shadeVars, imgVars>>

NextWorld == WorldSetTransform \/ WorldIntersect

SpecWorld == InitWorld /\ [][NextWorld]_vars

-----------------------------------------------------------------------------
(* Material::lighting on the arguments of LightingInputs *)

InitLighting ==
    /\ ImgIdle
    /\ shade = NoShadeYet
    /\ light = NoLight
    /\ HitIdle
    /\ MatIdle
    /\ WorldIdle

\* m.lighting(&l, point, eyev, normalv)
CallLighting ==
    /\ shade = NoShadeYet
    /\ \E a \in LightingInputs :
        /\ shade' = LightingCall(a, Material_lighting_terms(a.m, a.l, a.point, a.eyev, a.normalv))
        /\ UNCHANGED <<light, hitVars, matVars, worldVars, imgVars>>

NextLighting == CallLighting

SpecLighting == InitLighting /\ [][NextLighting]_vars

-----------------------------------------------------------------------------
(* A world with or without a light: PreparedComputations::new, shade_hit, *)
(* color_at                                                               *)

InitShading ==
    /\ ImgIdle
    /\ objects \in ShadeWorlds
    /\ light \in ShadeLights
    /\ shade = NoShadeYet
    /\ call = NoCallYet
    /\ HitIdle
    /\ MatIdle

\* PreparedComputations::new(&SphereIntersection::new(t, &world.objects[i]), &ray)
Prepare ==
    /\ shade = NoShadeYet
    /\ \E i \in 1..Len(objects) : \E t \in PrepareTs : \E ray \in AxisRays :
        /\ shade' = Shade("prepare", [intersection |-> SphereIntersection(t, i), ray |-> ray],
                          PreparedComputations_new(objects, SphereIntersection(t, i), ray))
        /\ UNCHANGED <<light, hitVars, matVars, worldVars, imgVars>>

\* world.shade_hit(&comps), for the computations just prepared
ShadeHit ==
    /\ shade.op = "prepare"
    /\ shade.out.kind = "ok"
    /\ shade' = Shade("shade_hit", [comps |-> shade.out.val],
                      World_shade_hit(objects, light, shade.out.val))
    /\ UNCHANGED <<light, hitVars, matVars, worldVars, imgVars>>

\* world.color_at(&ray)
ColorAt ==
    /\ shade = NoShadeYet
    /\ \E ray \in ShadeRays :
        /\ shade' = Shade("color_at", [ray |-> ray], World_color_at(objects, light, ray))
        /\ UNCHANGED <<light, hitVars, matVars, worldVars, imgVars>>

NextShading == Prepare \/ ShadeHit \/ ColorAt

SpecShading == InitShading /\ [][NextShading]_vars

-----------------------------------------------------------------------------
(* Sequences of World::intersect, shade_hit and color_at on one world *)

InitFrame ==
    /\ ImgIdle
    /\ objects \in FrameWorlds
    /\ light \in ShadeLights
    /\ shade = NoShadeYet
    /\ call = NoCallYet
    /\ HitIdle
    /\ MatIdle

\* world.intersect(&r)
FrameIntersect ==
    \E r \in FrameRays :
        /\ call' = IntersectCall("world_intersect", 0, r, World_intersect(objects, r))
        /\ UNCHANGED <<objects, shadeVars, hitVars, matVars, imgVars>>

\* the record of shade_hit for the computations comps
ShadeHitCall(objs, l, comps) ==
    Shade("shade_hit", [comps |-> comps.val], World_shade_hit(objs, l, comps.val))

\* world.shade_hit(&PreparedComputations::new(hit, &ray)), for the hit of the
\* intersections that world.intersect(&ray) just returned
FrameShadeHit ==
    /\ call.op = "world_intersect"
    /\ call.kind = "ok"
    /\ Hit(call.xs).kind = "some"
    /\ shade' = ShadeHitCall(objects, light,
                             PreparedComputations_new(objects, call.xs[Hit(call.xs).idx], call.ray))
    /\ UNCHANGED <<light, worldVars, hitVars, matVars, imgVars>>

\* color_at that takes the light out of the world
FrameColorAtTakesLight ==
    \E ray \in FrameRays :
        /\ shade' = Shade("color_at", [ray |-> ray], World_color_at(objects, light, ray))
        /\ light' = NoLight
        /\ UNCHANGED <<worldVars, hitVars, matVars, imgVars>>

\* world.color_at(&ray)
FrameColorAt ==
    \E ray \in FrameRays :
        /\ shade' = Shade("color_at", [ray |-> ray], World_color_at(objects, light, ray))
        /\ UNCHANGED <<light, worldVars, hitVars, matVars, imgVars>>

NextFrame == FrameIntersect \/ FrameShadeHit \/ FrameColorAt

SpecFrame == InitFrame /\ [][NextFrame]_vars

-----------------------------------------------------------------------------
(* Ray::transform of the rays of RayInputs by the matrices of RayTransforms *)

\* the ray under test, held as the argument of a call not yet made
RayHeld(r) == [NoCallYet EXCEPT !.ray = r]

InitRay ==
    /\ ImgIdle
    /\ mIn \in RayTransforms
    /\ mInv = MatNotCalled
    /\ mOut = MatNoOp
    /\ objects = <<>>
    /\ call \in {RayHeld(r) : r \in RayInputs}
    /\ HitIdle
    /\ ShadeIdle

\* call.ray.transform(mIn)
RayTransform ==
    /\ mOut = MatNoOp
    /\ mOut' = Op("ray_transform", <<>>, Ray_transform(call.ray, mIn))
    /\ UNCHANGED <<mIn, mInv, hitVars, worldVars, shadeVars, imgVars>>

NextRay == RayTransform

SpecRay == InitRay /\ [][NextRay]_vars

-----------------------------------------------------------------------------
(* A canvas under sequences of put_pixel and get_pixel *)

\* the record of a call on the canvas: the operation, its position and
\* pixel, its outcome, and the put_pixel calls that returned so far
CanvasCall(op, at, pixel, kind, val, puts) ==
    [op |-> op, at |-> at, pixel |-> pixel, kind |-> kind, val |-> val, puts |-> puts]

NewCall == CanvasCall("new", <<0, 0>>, Tuple_zero, "ok", Tuple_zero, <<>>)

\* the record of put_pixel(pixel, at) with the outcome kind
PutCall(pixel, at, kind) ==
    CanvasCall("put_pixel", at, pixel, kind, Tuple_zero,
               IF kind = "ok" THEN Append(ppm.puts, [at |-> at, pixel |-> pixel])
               ELSE ppm.puts)

\* the record of get_pixel(at) with the outcome r
GetCall(at, r) == CanvasCall("get_pixel", at, Tuple_zero, r.kind, r.val, ppm.puts)

\* Canvas::new(width, height)
InitCanvas ==
    /\ canvas \in {Canvas_new(w, h) : w \in 0..MaxWidth, h \in 0..MaxHeight}
    /\ ppm = NewCall
    /\ HitIdle
    /\ MatIdle
    /\ WorldIdle
    /\ ShadeIdle

\* canvas.put_pixel(pixel, at); a panic ends the calls
PutPixelAt(pixel, at, r) ==
    /\ ppm.kind = "ok"
    /\ Len(ppm.puts) < MaxPuts
    /\ canvas' = r.canvas
    /\ ppm' = PutCall(pixel, at, r.kind)
    /\ UNCHANGED <<hitVars, matVars, worldVars, shadeVars>>

\* canvas.get_pixel(at)
GetPixelAt(at) ==
    /\ ppm.kind = "ok"
    /\ ppm' = GetCall(at, Canvas_get_pixel(canvas, at))
    /\ UNCHANGED <<canvas, hitVars, matVars, worldVars, shadeVars>>

\* put_pixel at a position of the canvas
PutPixel ==
    \E pixel \in Pixels : \E x \in 0..(canvas.width - 1) : \E y \in 0..(canvas.height - 1) :
        PutPixelAt(pixel, <<x, y>>, Canvas_put_pixel(canvas, pixel, <<x, y>>))

\* get_pixel at a position of the canvas
GetPixel ==
    \E x \in 0..(canvas.width - 1) : \E y \in 0..(canvas.height - 1) : GetPixelAt(<<x, y>>)

NextCanvas == PutPixel \/ GetPixel

SpecCanvas == InitCanvas /\ [][NextCanvas]_vars

-----------------------------------------------------------------------------
(* One put_pixel or get_pixel at any position, on a canvas whose pixels *)
(* are told apart by their color                                        *)

MarkedCall == CanvasCall("marked", <<0, 0>>, Tuple_zero, "ok", Tuple_zero, <<>>)

InitCanvasAny ==
    /\ canvas \in {Marked(w, h) : w \in 0..MaxWidth, h \in 0..MaxHeight}
    /\ ppm = MarkedCall
    /\ HitIdle
    /\ MatIdle
    /\ WorldIdle
    /\ ShadeIdle

PutPixelAny ==
    /\ ppm.op = "marked"
    /\ \E pixel \in Pixels : \E x \in AnyColumns : \E y \in AnyRows :
          PutPixelAt(pixel, <<x, y>>, Canvas_put_pixel(canvas, pixel, <<x, y>>))

GetPixelAny ==
    /\ ppm.op = "marked"
    /\ \E x \in AnyColumns : \E y \in AnyRows : GetPixelAt(<<x, y>>)

NextCanvasAny == PutPixelAny \/ GetPixelAny

SpecCanvasAny == InitCanvasAny /\ [][NextCanvasAny]_vars

-----------------------------------------------------------------------------
(* PPMEncoder::write, one write_all at a time; each write_all succeeds or *)
(* returns an error, as the writer decides                                *)

InitPpm ==
    /\ canvas = NoCanvas
    /\ ppm \in {Encoder(image) : image \in PpmImages}
    /\ HitIdle
    /\ MatIdle
    /\ WorldIdle
    /\ ShadeIdle

\* the encoder goes from ppm to e
EncoderStep(e) ==
    /\ ppm' = e
    /\ UNCHANGED <<canvas, hitVars, matVars, worldVars, shadeVars>>

AtHeader == ppm.op = "write" /\ ppm.pc = "header"

\* write_data has a color left to write
AtColor == ppm.op = "write" /\ ppm.pc = "data" /\ ppm.i < Len(ppm.image.colors)

\* write_header: write_all accepts the header
WriteHeaderOk ==
    /\ AtHeader
    /\ EncoderStep(Written(ppm, HeaderText(ppm.image.width, ppm.image.height), "data", 0))

\* write_header: write_all returns an error
WriteHeaderErr ==
    /\ AtHeader
    /\ EncoderStep(Failed(ppm))

\* write_data: (i + 1) % width panics for the width 0
WriteColorPanic ==
    /\ AtColor
    /\ ppm.image.width = 0
    /\ EncoderStep(Panicked(ppm))

\* write_data: write_all accepts the string of the color of index i
WriteColorOk ==
    /\ AtColor
    /\ ppm.image.width # 0
    /\ EncoderStep(Written(ppm, ColorText(ppm.image.width, ppm.i, ppm.image.colors[ppm.i + 1]),
                           "data", ppm.i + 1))

\* write_data that goes on after an error of write_all
WriteColorErrIgnored ==
    /\ AtColor
    /\ ppm.image.width # 0
    /\ EncoderStep(FailedIgnored(ppm))

\* write_data: write_all returns an error
WriteColorErr ==
    /\ AtColor
    /\ ppm.image.width # 0
    /\ EncoderStep(Failed(ppm))

\* write_data is through the colors: write returns Ok(())
WriteReturn ==
    /\ ppm.op = "write"
    /\ ppm.pc = "data"
    /\ ppm.i = Len(ppm.image.colors)
    /\ EncoderStep(Returned(ppm))

NextPpm ==
    \/ WriteHeaderOk
    \/ WriteHeaderErr
    \/ WriteColorPanic
    \/ WriteColorOk
    \/ WriteColorErr
    \/ WriteReturn

SpecPpm == InitPpm /\ [][NextPpm]_vars

-----------------------------------------------------------------------------
(* clamp_to_u8 on the channel values of ChannelInputs *)

\* the channel value n waiting for its conversion
ChannelHeld(n) == [op |-> "channel", n |-> n]

InitChannel ==
    /\ canvas = NoCanvas
    /\ ppm \in {ChannelHeld(n) : n \in ChannelInputs}
    /\ HitIdle
    /\ MatIdle
    /\ WorldIdle
    /\ ShadeIdle

\* clamp_to_u8(ppm.n)
ClampToU8 ==
    /\ ppm.op = "channel"
    /\ ppm' = [op |-> "clamp_to_u8", n |-> ppm.n, out |-> clamp_to_u8(ppm.n)]
    /\ UNCHANGED <<canvas, hitVars, matVars, worldVars, shadeVars>>

NextChannel == ClampToU8

SpecChannel == InitChannel /\ [][NextChannel]_vars

-----------------------------------------------------------------------------
(* Matrix4x4 products, transpose, det, cofactor and submatrix on the *)
(* matrices of OpsMatrices                                           *)

InitMatOps ==
    /\ ImgIdle
    /\ mIn \in OpsMatrices
    /\ mInv = MatNotCalled
    /\ mOut = MatNoOp
    /\ HitIdle
    /\ WorldIdle
    /\ ShadeIdle

\* mIn * t
MulTuple ==
    /\ mOut = MatNoOp
    /\ \E t \in OpsTuples :
        /\ mOut' = Op("mul_tuple", <<t>>, Matrix4x4_mul_tuple(mIn, t))
        /\ UNCHANGED <<mIn, mInv, hitVars, worldVars, shadeVars, imgVars>>

\* mIn * b
MulRight ==
    /\ mOut = MatNoOp
    /\ \E b \in OpsOperands :
        /\ mOut' = Op("mul_right", <<b>>, Matrix4x4_mul(mIn, b))
        /\ UNCHANGED <<mIn, mInv, hitVars, worldVars, shadeVars, imgVars>>

\* b * mIn
MulLeft ==
    /\ mOut = MatNoOp
    /\ \E b \in OpsOperands :
        /\ mOut' = Op("mul_left", <<b>>, Matrix4x4_mul(b, mIn))
        /\ UNCHANGED <<mIn, mInv, hitVars, worldVars, shadeVars, imgVars>>

\* mIn.transpose()
Transpose ==
    /\ mOut = MatNoOp
    /\ mOut' = Op("transpose", <<>>, Matrix4x4_transpose(mIn))
    /\ UNCHANGED <<mIn, mInv, hitVars, worldVars, shadeVars, imgVars>>

\* mIn.transpose().transpose()
TransposeTwice ==
    /\ mOut.op = "transpose"
    /\ mOut' = Op("transpose_twice", <<>>, Matrix4x4_transpose(mOut.res.val))
    /\ UNCHANGED <<mIn, mInv, hitVars, worldVars, shadeVars, imgVars>>

\* mIn.det()
Det ==
    /\ mOut = MatNoOp
    /\ mOut' = Op("det", <<>>, Matrix4x4_det(mIn))
    /\ UNCHANGED <<mIn, mInv, hitVars, worldVars, shadeVars, imgVars>>

\* mIn.submatrix(row, col)
SubmatrixOf ==
    /\ mOut = MatNoOp
    /\ \E row \in 0..3 : \E col \in 0..3 :
        /\ mOut' = Op("submatrix", <<row, col>>, Matrix4x4_submatrix(mIn, row, col))
        /\ UNCHANGED <<mIn, mInv, hitVars, worldVars, shadeVars, imgVars>>

\* mIn.submatrix(row, col).det(), for the submatrix just taken
Det3 ==
    /\ mOut.op = "submatrix"
    /\ mOut' = Op("det3", <<mOut.res.val>>, Matrix3x3_det(mOut.res.val))
    /\ UNCHANGED <<mIn, mInv, hitVars, worldVars, shadeVars, imgVars>>

\* mIn.cofactor(row, col)
Cofactor ==
    /\ mOut = MatNoOp
    /\ \E row \in 0..3 : \E col \in 0..3 :
        /\ mOut' = Op("cofactor", <<row, col>>, Matrix4x4_cofactor(mIn, row, col))
        /\ UNCHANGED <<mIn, mInv, hitVars, worldVars, shadeVars, imgVars>>

NextMatOps ==
    \/ MulTuple
    \/ MulRight
    \/ MulLeft
    \/ Transpose
    \/ TransposeTwice
    \/ Det
    \/ SubmatrixOf
    \/ Det3
    \/ Cofactor

SpecMatOps == InitMatOps /\ [][NextMatOps]_vars

-----------------------------------------------------------------------------
(* Claims about SphereIntersections::hit *)

HitCalled == hitOut # NoCall

\* every t of the collection is comparable (none is NaN)
Comparable(xs) == \A i \in 1..Len(xs) : ~IsNaN(xs[i].t)

\* C1: over a collection of comparable t, sorted or not, hit returns an
\* intersection whose t is not negative and is <= the t of every intersection
\* with t >= 0, and it returns None exactly when the collection is empty or
\* every t is negative.
C1_HitLowestNonNegative ==
    (HitCalled /\ Comparable(hitXs)) =>
        /\ hitOut.kind \in {"some", "none"}
        /\ hitOut.kind = "some" =>
              /\ hitOut.idx \in 1..Len(hitXs)
              /\ ~FLt(hitXs[hitOut.idx].t, FInt(0))
              /\ \A j \in 1..Len(hitXs) :
                    FGe(hitXs[j].t, FInt(0)) => FLe(hitXs[hitOut.idx].t, hitXs[j].t)
        /\ hitOut.kind = "none" <=>
              (Len(hitXs) = 0 \/ \A j \in 1..Len(hitXs) : FLt(hitXs[j].t, FInt(0)))

\* the hit of the unsorted collection [5, 7, -3, 2] of the test is its 4th entry
C1_Witness ==
    /\ HitCalled
    /\ hitXs = <<SphereIntersection(FInt(5), 1), SphereIntersection(FInt(7), 1),
                 SphereIntersection(FInt(-3), 1), SphereIntersection(FInt(2), 1)>>
    /\ hitOut = [kind |-> "some", idx |-> 4]

\* C2: when several intersections share the smallest non-negative t, hit
\* returns the one that comes first in the collection.
C2_HitTieFirst ==
    (HitCalled /\ Comparable(hitXs) /\ hitOut.kind = "some") =>
        \A j \in 1..Len(hitXs) : hitXs[j].t = hitXs[hitOut.idx].t => hitOut.idx <= j

\* a tie for the smallest non-negative t, after an entry that is not the hit
C2_Witness ==
    /\ HitCalled
    /\ Comparable(hitXs)
    /\ hitOut.kind = "some"
    /\ hitOut.idx > 1
    /\ \E j \in 1..Len(hitXs) : j > hitOut.idx /\ hitXs[j].t = hitXs[hitOut.idx].t

\* C3: when the collection holds an intersection whose t is NaN, hit fails
\* explicitly (panics) instead of returning a result.
C3_HitNaNPanics ==
    (HitCalled /\ \E i \in 1..Len(hitXs) : IsNaN(hitXs[i].t)) => hitOut.kind = "panic"

-----------------------------------------------------------------------------
(* Claims about Matrix4x4::inverse *)

InverseCalled == mInv # MatNotCalled

\* C4: inverse returns None exactly when |det(M)| < 1e-12 and Some(matrix)
\* for every M with |det(M)| >= 1e-12; a matrix of determinant 0 never gets
\* an inverse.
C4_InverseNoneIffBelowPrecision ==
    InverseCalled =>
        /\ mInv.tag \in {"None", "Some"}
        /\ mInv.tag = "None" <=> FLt(FAbs(Matrix4x4_det(mIn)), PRECISION)
        /\ mInv.tag = "Some" <=> FGe(FAbs(Matrix4x4_det(mIn)), PRECISION)
        /\ IsZero(Matrix4x4_det(mIn)) => mInv.tag = "None"

\* a determinant that is not 0 and still below the threshold
C4_Witness ==
    /\ InverseCalled
    /\ mInv.tag = "None"
    /\ ~IsZero(Matrix4x4_det(mIn))
    /\ FLt(Matrix4x4_det(mIn), FInt(0))

\* C5: for invertible M the entry at row x, column y of inverse(M) is
\* cofactor(M, y, x) / det(M).
C5_InverseIsAdjugateOverDet ==
    (InverseCalled /\ mInv.tag = "Some") =>
        \A x \in 0..3 : \A y \in 0..3 :
            Matrix4x4_get(mInv.val, x, y) =
                FDiv(Matrix4x4_cofactor(mIn, y, x), Matrix4x4_det(mIn))

\* the matrix of test_matrix_inverse: det 532, and 240/532 = 0.45113 at (0, 1)
C5_Witness ==
    /\ mIn = MatI(<<-5, 2, 6, -8, 1, -5, 1, 8, 7, 7, -6, -7, 1, -3, 7, 4>>)
    /\ mInv.tag = "Some"
    /\ Matrix4x4_get(mInv.val, 0, 1) = FRat(240, 532)
    /\ Matrix4x4_get(mInv.val, 1, 0) = FRat(-430, 532)

\* C6 as claimed: for every invertible M, M * inverse(M) is the identity and
\* inverse(inverse(M)) is M.
C6_Original ==
    /\ mOut.op = "mul" => mOut.res = SomeMatrix(Matrix4x4_identity)
    /\ mOut.op = "inverse" => mOut.res = SomeMatrix(mIn)

\* C6 amended: for every invertible M, M * inverse(M) is the identity; and
\* inverse(inverse(M)) is M whenever inverse(M) is itself invertible
\* (|det(inverse(M))| >= 1e-12), and is None otherwise.
C6_InverseRoundTrip ==
    /\ mOut.op = "mul" => mOut.res = SomeMatrix(Matrix4x4_identity)
    /\ mOut.op = "inverse" =>
          IF FGe(FAbs(Matrix4x4_det(mInv.val)), PRECISION)
          THEN mOut.res = SomeMatrix(mIn)
          ELSE mOut.res = NoMatrix

\* an invertible matrix that is not symmetric, multiplied by its inverse
C6_Witness ==
    /\ mOut.op = "mul"
    /\ mIn = MatI(<<-5, 2, 6, -8, 1, -5, 1, 8, 7, 7, -6, -7, 1, -3, 7, 4>>)
    /\ mOut.res = SomeMatrix(Matrix4x4_identity)

-----------------------------------------------------------------------------
(* Claims about Sphere::intersect, normal_at and set_transform *)

TheSphere == objects[1]

Invertible(m) == Matrix4x4_is_invertible(m)

\* the quadratic of the latest intersect call, for an invertible transform
CallQuadratic ==
    Quadratic(TheSphere, Matrix4x4_inverse(TheSphere.transform).val, call.ray)

\* C7: for a sphere with an invertible transform, intersect returns no
\* intersection exactly when the discriminant is negative and two otherwise,
\* never one; a tangent ray (discriminant 0, direction not zero) yields two
\* intersections with equal t; every intersection references the sphere.
C7_IntersectZeroOrTwo ==
    (call.op = "intersect" /\ Invertible(TheSphere.transform)) =>
        LET q == CallQuadratic IN
        /\ call.kind = "ok"
        /\ Len(call.xs) \in {0, 2}
        /\ Len(call.xs) = 0 <=> FLt(q.discriminant, FInt(0))
        /\ (IsZero(q.discriminant) /\ ~IsZero(q.a)) =>
              /\ Len(call.xs) = 2
              /\ FEq(call.xs[1].t, call.xs[2].t)
        /\ \A k \in 1..Len(call.xs) : call.xs[k].sphere = call.self

\* a tangent ray on a transformed sphere, hit behind the origin of the ray
C7_Witness ==
    /\ call.op = "intersect"
    /\ TheSphere.transform # Matrix4x4_identity
    /\ Invertible(TheSphere.transform)
    /\ IsZero(CallQuadratic.discriminant)
    /\ ~IsZero(CallQuadratic.a)
    /\ Len(call.xs) = 2
    /\ FLt(call.xs[1].t, FInt(0))
    /\ call.xs[1].sphere = 1

\* C8 as claimed: the two intersections are in ascending order for every ray,
\* a ray whose direction has zero length included.
C8_Original ==
    (call.op = "intersect" /\ call.kind = "ok" /\ Len(call.xs) = 2) =>
        FLe(call.xs[1].t, call.xs[2].t)

\* C8 amended: the two intersections are in ascending order for every ray
\* whose direction is not the zero vector; for the zero direction intersect
\* returns two intersections whose t are both NaN, which are not ordered.
C8_IntersectAscending ==
    (call.op = "intersect" /\ call.kind = "ok") =>
        IF call.ray.direction = Vec(0, 0, 0)
        THEN /\ Len(call.xs) = 2
             /\ IsNaN(call.xs[1].t)
             /\ IsNaN(call.xs[2].t)
        ELSE Len(call.xs) = 2 => FLe(call.xs[1].t, call.xs[2].t)

\* two distinct intersections, the first one behind the origin of the ray
C8_Witness ==
    /\ call.op = "intersect"
    /\ Len(call.xs) = 2
    /\ TheSphere.transform # Matrix4x4_identity
    /\ FLt(call.xs[1].t, FInt(0))
    /\ FGt(call.xs[2].t, FInt(0))

\* C9: on a sphere whose transform has no inverse, intersect and normal_at
\* panic and return nothing; set_transform accepts the singular matrix.
C9_SingularTransformPanics ==
    /\ (call.op \in {"intersect", "normal_at"} /\ ~Invertible(TheSphere.transform)) =>
          /\ call.kind = "panic"
          /\ call.xs = <<>>
    /\ call.op = "set_transform" => call.kind = "ok"

\* normal_at on a sphere scaled by (1, 0, 1)
C9_Witness ==
    /\ call.op = "normal_at"
    /\ TheSphere.transform = Matrix4x4_scaling(FInt(1), FInt(0), FInt(1))
    /\ call.kind = "panic"

-----------------------------------------------------------------------------
(* Claims about World::intersect *)

\* what each object on its own returns for the ray of the latest call
PerObject == [i \in 1..Len(objects) |-> Sphere_intersect(objects[i], i, call.ray).xs]

RECURSIVE SumOfCounts(_, _)
SumOfCounts(per, i) == IF i = 0 THEN 0 ELSE SumOfCounts(per, i - 1) + Len(per[i])

Occurrences(xs, e) == Cardinality({k \in 1..Len(xs) : xs[k] = e})

\* C10: World::intersect returns the entries of every object's intersect:
\* as many as the objects return together, each entry as often as its own
\* sphere returns it, none dropped when two spheres give the same t, and in
\* ascending order of t.
C10_WorldIntersectUnion ==
    (call.op = "world_intersect" /\ call.kind = "ok") =>
        LET per == PerObject IN
        /\ Len(call.xs) = SumOfCounts(per, Len(objects))
        /\ \A k \in 1..Len(call.xs) :
              /\ call.xs[k].sphere \in 1..Len(objects)
              /\ Occurrences(call.xs, call.xs[k]) =
                    Occurrences(per[call.xs[k].sphere], call.xs[k])
        /\ \A i \in 1..Len(objects) : \A k \in 1..Len(per[i]) :
              Occurrences(call.xs, per[i][k]) = Occurrences(per[i], per[i][k])
        /\ \A k \in 1..(Len(call.xs) - 1) : FLe(call.xs[k].t, call.xs[k + 1].t)

\* two spheres that give the same t: both entries are kept
C10_Witness ==
    /\ call.op = "world_intersect"
    /\ call.kind = "ok"
    /\ Len(call.xs) = 4
    /\ call.xs[1].t = call.xs[2].t
    /\ call.xs[1].sphere # call.xs[2].sphere
    /\ FLt(call.xs[2].t, call.xs[3].t)

-----------------------------------------------------------------------------
(* Claims about Material::lighting *)

\* dot(light_vector, normal_vector) of the latest call of lighting
CallLightDotNormal ==
    Tuple4_dot(Tuple4_normalize(Tuple4_sub(shade.args.l.position, shade.args.point)),
               shade.args.normalv)

\* dot(reflect(-light_vector, normal_vector), eye_vector) of the latest call
CallReflectDotEye ==
    LET lightv == Tuple4_normalize(Tuple4_sub(shade.args.l.position, shade.args.point))
    IN Tuple4_dot(Tuple4_reflect(Tuple4_negate(lightv), shade.args.normalv),
                  shade.args.eyev)

\* the channel c of material.color * light.intensity of the latest call
CallEffective(c) == FMul(shade.args.m.color[c], shade.args.l.intensity[c])

Channels == {"x", "y", "z"}

\* C15: whenever dot(light_vector, normal_vector) < 0, lighting computes a
\* black diffuse and a black specular term and returns the ambient term
\* alone: material.color * light.intensity, per channel, * material.ambient.
C15_LightBehindAmbientOnly ==
    (shade.op = "lighting" /\ FLt(CallLightDotNormal, FInt(0))) =>
        /\ shade.out.terms.ds.diffuse = Black
        /\ shade.out.terms.ds.specular = Black
        /\ \A c \in Channels :
              shade.out.color[c] = FMul(CallEffective(c), shade.args.m.ambient)

\* the default material lit from behind the surface: (0.1, 0.1, 0.1)
C15_Witness ==
    /\ shade.op = "lighting"
    /\ shade.args.m = Material_default
    /\ FLt(CallLightDotNormal, FInt(0))
    /\ \A c \in Channels : shade.out.color[c] = FDec(1, -1)

\* C16: when dot(light_vector, normal_vector) >= 0, the diffuse term is
\* effective_color * material.diffuse * light_dot_normal; the specular term
\* is black when reflect_dot_eye <= 0, exactly 0 included, and it is
\* light.intensity * material.specular * reflect_dot_eye^shininess when
\* reflect_dot_eye > 0, the only case in which it is not black.
C16_SpecularOnlyWhenPositive ==
    (shade.op = "lighting" /\ FGe(CallLightDotNormal, FInt(0))) =>
        LET ldn == CallLightDotNormal
            rde == CallReflectDotEye
            m == shade.args.m
            ds == shade.out.terms.ds
        IN /\ \A c \in Channels :
                ds.diffuse[c] = FMul(FMul(CallEffective(c), m.diffuse), ldn)
           /\ FLe(rde, FInt(0)) => ds.specular = Black
           /\ FGt(rde, FInt(0)) =>
                \A c \in Channels :
                    ds.specular[c] =
                        FMul(FMul(shade.args.l.intensity[c], m.specular),
                             FPowf(rde, m.shininess))
           /\ ds.specular # Black => FGt(rde, FInt(0))

\* a lit surface seen at a right angle to the reflection: reflect_dot_eye is
\* exactly 0, the specular term is black although 0^shininess is 1, and the
\* diffuse term is not black
C16_Witness ==
    /\ shade.op = "lighting"
    /\ FGt(CallLightDotNormal, FInt(0))
    /\ CallReflectDotEye = FInt(0)
    /\ shade.args.eyev # Vec(0, 0, 0)
    /\ shade.args.m.shininess = FInt(0)
    /\ shade.out.terms.ds.specular = Black
    /\ shade.out.terms.ds.diffuse # Black

-----------------------------------------------------------------------------
(* Claims about World::color_at, shade_hit and PreparedComputations::new *)

BlackColor == Color_new(FInt(0), FInt(0), FInt(0))

\* some intersection of xs has a non-negative t
HasHit(xs) == \E k \in 1..Len(xs) : FGe(xs[k].t, FInt(0))

\* position k of xs holds the smallest non-negative t of xs
IsNearest(xs, k) ==
    /\ FGe(xs[k].t, FInt(0))
    /\ \A j \in 1..Len(xs) : FGe(xs[j].t, FInt(0)) => FLe(xs[k].t, xs[j].t)

\* C11: color_at returns black (0, 0, 0) when the ray has no hit, the empty
\* world included, and when the world has no light; otherwise it returns
\* exactly shade_hit of the computations prepared for the hit.
C11_ColorAtBlackOrShadeHit ==
    shade.op = "color_at" =>
        LET ray == shade.args.ray
            r == World_intersect(objects, ray)
        IN r.kind = "ok" =>
            /\ ~HasHit(r.xs) => shade.out = ColorOk(BlackColor)
            /\ (HasHit(r.xs) /\ light = NoLight) => shade.out = ColorOk(BlackColor)
            /\ (HasHit(r.xs) /\ light # NoLight) =>
                 LET comps == PreparedComputations_new(objects, r.xs[Hit(r.xs).idx], ray)
                 IN /\ comps.kind = "ok"
                    /\ shade.out = ColorOk(World_shade_hit(objects, light, comps.val).val)

\* a ray that hits a sphere of a world without a light: black
C11_Witness ==
    /\ shade.op = "color_at"
    /\ light = NoLight
    /\ Len(objects) > 0
    /\ LET r == World_intersect(objects, shade.args.ray)
       IN r.kind = "ok" /\ HasHit(r.xs)
    /\ shade.out = ColorOk(BlackColor)

\* C12: shade_hit returns None, and does not abort, exactly when the world
\* has no light; with a light it returns Some of the color that the material
\* of the hit object computes under the light of the world.
C12_ShadeHitNoneIffNoLight ==
    shade.op = "shade_hit" =>
        LET comps == shade.args.comps IN
        /\ shade.out.tag \in {"None", "Some"}
        /\ shade.out.tag = "None" <=> light = NoLight
        /\ light # NoLight =>
             shade.out =
                 SomeColor(Color_of(Material_lighting(objects[comps.object].material, light.val,
                                                      comps.point, comps.eyev, comps.normalv)))

\* shade_hit in a world without a light, for computations whose object is a
\* sphere of the world: None
C12_Witness ==
    /\ shade.op = "shade_hit"
    /\ light = NoLight
    /\ shade.args.comps.object \in 1..Len(objects)
    /\ shade.out = NoColor

\* C13: color_at shades the object that owns the smallest non-negative t
\* among the intersections of all objects: an intersection with t < 0 and
\* the intersections farther away never determine the color.
C13_ColorAtNearestNonNegative ==
    shade.op = "color_at" =>
        LET ray == shade.args.ray
            r == World_intersect(objects, ray)
        IN (r.kind = "ok" /\ HasHit(r.xs)) =>
            \E k \in 1..Len(r.xs) :
                /\ IsNearest(r.xs, k)
                /\ shade.out =
                       ColorAtShade(objects, light,
                                    PreparedComputations_new(objects, r.xs[k], ray))

\* the ray from (0, 0, 0.75) towards -z, between the outer and the inner
\* sphere, both of ambient 1: the outer sphere is behind the origin of the
\* ray (t < 0), and the color is the color of the inner sphere
C13_Witness ==
    /\ shade.op = "color_at"
    /\ shade.args.ray = Ray_new(Tuple4_point(FInt(0), FInt(0), FDec(75, -2)), Vec(0, 0, -1))
    /\ Len(objects) = 2
    /\ objects[1].transform = Matrix4x4_identity
    /\ objects[1].material = Ambient1(World_default_material)
    /\ objects[2].transform = Matrix4x4_scaling(FRat(1, 2), FRat(1, 2), FRat(1, 2))
    /\ light = SomeLight(PointLight_new(Pt(0, 0, -10), White))
    /\ shade.out = ColorOk(Color_of(objects[2].material.color))
    /\ objects[2].material.color # objects[1].material.color

\* C14: PreparedComputations::new sets t to the t of the intersection, point
\* to ray.position(t), eyev to -ray.direction and object to the sphere of the
\* intersection; when dot(normal_at(point), eyev) < 0 it sets inside and
\* negates the normal, else inside is false and the normal is unchanged.
C14_PreparedComputations ==
    (shade.op = "prepare" /\ shade.out.kind = "ok") =>
        LET i == shade.args.intersection
            ray == shade.args.ray
            comps == shade.out.val
            point == Tuple4_add(ray.origin, Tuple4_mul(ray.direction, i.t))
            eyev == Tuple4_negate(ray.direction)
            normal == Sphere_normal_at(objects[i.sphere], point).val
        IN /\ comps.t = i.t
           /\ comps.object = i.sphere
           /\ comps.point = point
           /\ comps.eyev = eyev
           /\ IF FLt(Tuple4_dot(normal, eyev), FInt(0))
              THEN comps.inside /\ comps.normalv = Tuple4_negate(normal)
              ELSE ~comps.inside /\ comps.normalv = normal

\* the intersection at t = 1 of the ray from the centre of the unit sphere
\* towards +z: inside, and the normal (0, 0, 1) negated
C14_Witness ==
    /\ shade.op = "prepare"
    /\ shade.out.kind = "ok"
    /\ shade.args.ray = Ray_new(Pt(0, 0, 0), Vec(0, 0, 1))
    /\ shade.args.intersection.t = FInt(1)
    /\ objects[shade.args.intersection.sphere].transform = Matrix4x4_identity
    /\ shade.out.val.point = Pt(0, 0, 1)
    /\ shade.out.val.inside
    /\ shade.out.val.normalv = Vec(0, 0, -1)

-----------------------------------------------------------------------------
(* Claims about the Matrix4x4 products, transpose and det *)

\* mIn is translation(x, y, z) for the x, y, z of its last column
IsTranslation(m) ==
    \A i \in 0..15 :
        i \notin {3, 7, 11} => m[i] = (IF i \in {0, 5, 10, 15} THEN FInt(1) ELSE FInt(0))

\* C17: for every translation(x, y, z), the product with a vector (w = 0) is
\* the vector unchanged, and the product with a point (w = 1) is the point
\* moved by (x, y, z), with w still 1.
C17_TranslationMovesPointsOnly ==
    (mOut.op = "mul_tuple" /\ IsTranslation(mIn)) =>
        LET t == mOut.res.args[1] IN
        /\ t.w = FInt(0) => mOut.res.val = t
        /\ t.w = FInt(1) =>
             mOut.res.val =
                 [x |-> FAdd(t.x, mIn[3]), y |-> FAdd(t.y, mIn[7]), z |-> FAdd(t.z, mIn[11]),
                  w |-> FInt(1)]

\* translation(1, -1, 1) times the point (1, 1/2, -3): the point (2, -1/2, -2)
C17_Witness ==
    /\ mOut.op = "mul_tuple"
    /\ mIn = Matrix4x4_translation(FInt(1), FInt(-1), FInt(1))
    /\ mOut.res.args[1] = Tuple4_point(FInt(1), FRat(1, 2), FInt(-3))
    /\ mOut.res.val = Tuple4_point(FInt(2), FRat(-1, 2), FInt(-2))

\* the sum over n in 0..3 of a(y, n) * b(n, x)
RowByColumn(a, b, y, x) ==
    FAdd(FAdd(FAdd(FAdd(FInt(0), FMul(a[4 * y], b[x])), FMul(a[4 * y + 1], b[4 + x])),
              FMul(a[4 * y + 2], b[8 + x])), FMul(a[4 * y + 3], b[12 + x]))

\* C18: entry (y, x) of A * B is the sum over n in 0..3 of A(y, n) * B(n, x);
\* M * identity = M, identity * M = M and identity * t = t.  (That A * B
\* differs from B * A for some A and B is the witness.)
C18_RowByColumnProduct ==
    /\ mOut.op = "mul_right" =>
          LET b == mOut.res.args[1] IN
          /\ \A y, x \in 0..3 : mOut.res.val[4 * y + x] = RowByColumn(mIn, b, y, x)
          /\ b = Matrix4x4_identity => mOut.res.val = mIn
    /\ mOut.op = "mul_left" =>
          LET b == mOut.res.args[1] IN
          /\ \A y, x \in 0..3 : mOut.res.val[4 * y + x] = RowByColumn(b, mIn, y, x)
          /\ b = Matrix4x4_identity => mOut.res.val = mIn
    /\ (mOut.op = "mul_tuple" /\ mIn = Matrix4x4_identity) => mOut.res.val = mOut.res.args[1]

\* a product A * B that differs from B * A, neither factor the identity
C18_Witness ==
    /\ mOut.op = "mul_right"
    /\ mIn \in TestMatrices
    /\ mOut.res.args[1] # Matrix4x4_identity
    /\ \E y, x \in 0..3 :
          mOut.res.val[4 * y + x] # RowByColumn(mOut.res.args[1], mIn, y, x)

\* C19: transpose(M) has entry (y, x) equal to M(x, y) for all x and y, the
\* diagonal kept, and transpose(transpose(M)) = M.
C19_TransposeExchanges ==
    /\ mOut.op = "transpose" =>
          \A y, x \in 0..3 : mOut.res.val[4 * y + x] = mIn[4 * x + y]
    /\ mOut.op = "transpose_twice" => mOut.res.val = mIn

\* a matrix that is not symmetric, transposed twice
C19_Witness ==
    /\ mOut.op = "transpose_twice"
    /\ mIn \in TestMatrices
    /\ \E y, x \in 0..3 : mIn[4 * y + x] # mIn[4 * x + y]
    /\ mOut.res.val = mIn

\* the integer an f64 of integer value stands for
IntOf(a) == a.n * Pow10(a.x)

\* the sum of f over the set S
RECURSIVE SumOver(_, _)
SumOver(f, S) ==
    IF S = {} THEN 0
    ELSE LET e == CHOOSE e \in S : TRUE IN f[e] + SumOver(f, S \ {e})

\* the sign of the permutation p of 0..(n - 1)
SignOf(p, n) ==
    IF Cardinality({ij \in (0..(n - 1)) \X (0..(n - 1)) :
                       ij[1] < ij[2] /\ p[ij[1]] > p[ij[2]]}) % 2 = 0
    THEN 1 ELSE -1

\* the product of the entries data(i, p(i)) of the n x n array data
RECURSIVE ProdAlong(_, _, _, _)
ProdAlong(data, n, p, i) ==
    IF i = n THEN 1 ELSE IntOf(data[i * n + p[i]]) * ProdAlong(data, n, p, i + 1)

\* the Leibniz determinant of the n x n array data of integer entries
Leibniz(data, n) ==
    SumOver([p \in Perms(n) |-> SignOf(p, n) * ProdAlong(data, n, p, 0)], Perms(n))

\* the 3 x 3 array of the entries of m outside of row and col, row-major
Without(m, row, col) ==
    [k \in 0..8 |->
        m[4 * (IF (k \div 3) >= row THEN (k \div 3) + 1 ELSE k \div 3)
          + (IF (k % 3) >= col THEN (k % 3) + 1 ELSE k % 3)]]

\* C20: det of a 4x4 matrix, and of a 3x3 one, is the cofactor expansion
\* along row 0; cofactor(row, col) is (-1)^(row + col) times the determinant
\* of submatrix(row, col), which is the matrix without exactly that row and
\* that column, in row-major order; and det is the Leibniz determinant of
\* every matrix of integer entries.
C20_DetIsCofactorExpansion ==
    /\ mOut.op = "submatrix" =>
          mOut.res.val = Without(mIn, mOut.res.args[1], mOut.res.args[2])
    /\ mOut.op = "cofactor" =>
          LET row == mOut.res.args[1]
              col == mOut.res.args[2]
          IN mOut.res.val =
                 FInt((IF (row + col) % 2 = 0 THEN 1 ELSE -1)
                      * Leibniz(Without(mIn, row, col), 3))
    /\ mOut.op = "det3" =>
          LET m == mOut.res.args[1] IN
          /\ mOut.res.val =
                 FAdd(FAdd(FAdd(FInt(0),
                                FMul(m[0], FSub(FMul(m[4], m[8]), FMul(m[5], m[7])))),
                           FMul(m[1], FNeg(FSub(FMul(m[3], m[8]), FMul(m[5], m[6]))))),
                      FMul(m[2], FSub(FMul(m[3], m[7]), FMul(m[4], m[6]))))
          /\ mOut.res.val = FInt(Leibniz(m, 3))
    /\ mOut.op = "det" =>
          /\ mOut.res.val =
                 FAdd(FAdd(FAdd(FAdd(FInt(0),
                     FMul(mIn[0], FInt(Leibniz(Without(mIn, 0, 0), 3)))),
                     FMul(mIn[1], FInt(-Leibniz(Without(mIn, 0, 1), 3)))),
                     FMul(mIn[2], FInt(Leibniz(Without(mIn, 0, 2), 3)))),
                     FMul(mIn[3], FInt(-Leibniz(Without(mIn, 0, 3), 3))))
          /\ mOut.res.val = FInt(Leibniz(mIn, 4))

\* the determinant -4071 of the matrix of test_determinant_of_4x4_matrix
C20_Witness ==
    /\ mOut.op = "det"
    /\ mIn = MatI(<<-2, -8, 3, 5, -3, 1, 7, 3, 1, 2, -9, 6, -6, 7, 7, -9>>)
    /\ mOut.res.val = FInt(-4071)

-----------------------------------------------------------------------------
(* Claims about the world as intersect, shade_hit and color_at leave it *)

\* C21: World::intersect, World::shade_hit and World::color_at leave the
\* world unchanged: over every step of every sequence of these calls the
\* objects (each sphere's transform and material) and the light stay what
\* they were, so the color that a color_at call returned is the color that
\* color_at returns for the same ray on the world as it is after the call.
C21_WorldUnchangedByCalls ==
    /\ [][objects' = objects /\ light' = light]_vars
    /\ [](shade.op = "color_at" =>
             shade.out = World_color_at(objects, light, shade.args.ray))

\* after intersect and color_at on a lit world of two spheres: the color of
\* the hit, in a world that still has its light and both spheres
C21_Witness ==
    /\ call.op = "world_intersect"
    /\ shade.op = "color_at"
    /\ shade.out.kind = "ok"
    /\ shade.out.val # Color_new(FInt(0), FInt(0), FInt(0))
    /\ Len(objects) = 2
    /\ light # NoLight

-----------------------------------------------------------------------------
(* Claims about Ray::transform *)

\* row i of m times the tuple t
RowTimes(m, i, t) ==
    FAdd(FAdd(FAdd(FMul(m[4 * i], t.x), FMul(m[4 * i + 1], t.y)), FMul(m[4 * i + 2], t.z)),
         FMul(m[4 * i + 3], t.w))

TimesTuple(m, t) ==
    [x |-> RowTimes(m, 0, t), y |-> RowTimes(m, 1, t), z |-> RowTimes(m, 2, t),
     w |-> RowTimes(m, 3, t)]

\* C22: Ray::transform(m) returns a ray whose origin is m * origin and whose
\* direction is m * direction, and leaves the ray it is called on unchanged;
\* for m built from translation, scaling, rotation and shearing the new
\* origin is a point (w = 1) and the new direction a vector (w = 0), and the
\* direction is not renormalized.
C22_RayTransformMapsBoth ==
    /\ [][call' = call]_vars
    /\ [](mOut.op = "ray_transform" =>
             /\ mOut.res.val.origin = TimesTuple(mIn, call.ray.origin)
             /\ mOut.res.val.direction = TimesTuple(mIn, call.ray.direction)
             /\ mOut.res.val.origin.w = FInt(1)
             /\ mOut.res.val.direction.w = FInt(0))

\* test_scaling_a_ray: the direction (0, 1, 0) becomes (0, 3, 0), of length 3
C22_Witness ==
    /\ mOut.op = "ray_transform"
    /\ mIn = Matrix4x4_scaling(FInt(2), FInt(3), FInt(4))
    /\ call.ray = Ray_new(Pt(1, 2, 3), Vec(0, 1, 0))
    /\ mOut.res.val.origin = Pt(2, 6, 12)
    /\ mOut.res.val.direction = Vec(0, 3, 0)

-----------------------------------------------------------------------------
(* Claims about Sphere::normal_at *)

\* inverse(transform) * p - origin, for the point of the latest call
CallObjectNormal ==
    LET op == TimesTuple(Matrix4x4_inverse(TheSphere.transform).val, call.point)
    IN [x |-> FSub(op.x, FInt(0)), y |-> FSub(op.y, FInt(0)), z |-> FSub(op.z, FInt(0)),
        w |-> FSub(op.w, FInt(1))]

\* transpose(inverse(transform)) * object normal
CallTransposed ==
    LET inv == Matrix4x4_inverse(TheSphere.transform).val
        t == [i \in 0..15 |-> inv[4 * (i % 4) + (i \div 4)]]
    IN TimesTuple(t, CallObjectNormal)

\* the same with w put to 0
CallWorldNormal == [CallTransposed EXCEPT !.w = FInt(0)]

\* v * (1 / sqrt(v . v))
Unit(v) ==
    LET k == FDiv(FInt(1), FSqrt(FAdd(FAdd(FAdd(FMul(v.x, v.x), FMul(v.y, v.y)),
                                           FMul(v.z, v.z)), FMul(v.w, v.w))))
    IN [x |-> FMul(v.x, k), y |-> FMul(v.y, k), z |-> FMul(v.z, k), w |-> FMul(v.w, k)]

\* the point of the latest call is the centre of the sphere
AtCentre == \A c \in {"x", "y", "z"} : IsZero(CallObjectNormal[c])

\* C23 as stated: for every sphere with an invertible transform and every
\* point p, normal_at(p) returns a tuple with w = 0.
C23_Original ==
    (call.op = "normal_at" /\ Invertible(TheSphere.transform)) =>
        /\ call.kind = "ok"
        /\ call.val.w = FInt(0)

\* C23: for every sphere with an invertible transform and every point p,
\* normal_at(p) is the normalized transpose(inverse(transform)) *
\* (inverse(transform) * p - origin) with w put to 0 before normalizing; its w
\* is 0 for every p but the centre of the sphere, whatever the translation;
\* at the centre the vector to normalize is zero and every component of the
\* result, w included, is 0/0 = NaN.
C23_NormalIsVectorOffCentre ==
    (call.op = "normal_at" /\ Invertible(TheSphere.transform)) =>
        /\ call.kind = "ok"
        /\ call.val = Unit(CallWorldNormal)
        /\ ~AtCentre => call.val.w = FInt(0) /\ IsFinite(call.val.x)
        /\ AtCentre => IsNaN(call.val.w)

\* a normal on a translated sphere, away from its centre, where the
\* transposed product has a w that is not 0
C23_Witness ==
    /\ call.op = "normal_at"
    /\ TheSphere.transform = Matrix4x4_translation(FInt(0), FInt(1), FInt(0))
    /\ call.point = Pt(0, 0, 1)
    /\ ~AtCentre
    /\ ~IsZero(CallTransposed.w)
    /\ FLt(call.val.y, FInt(0))
    /\ FGt(call.val.z, FInt(0))
    /\ call.val.w = FInt(0)

-----------------------------------------------------------------------------
(* Claims about the normal kept by PreparedComputations::new *)

\* PartialEq of Tuple4: the four components compare equal as f64
TupleEq(a, b) == FEq(a.x, b.x) /\ FEq(a.y, b.y) /\ FEq(a.z, b.z) /\ FEq(a.w, b.w)

\* the normal_at of the object at the point of the latest prepare call
PreparedNormal ==
    Sphere_normal_at(objects[shade.out.val.object], shade.out.val.point).val

\* the point of the latest prepare call is the centre of its object
PreparedAtCentre == IsNaN(PreparedNormal.x)

\* C27 as stated: after PreparedComputations::new, for every intersection
\* and ray, dot(normalv, eyev) >= 0, and inside is true exactly when the
\* stored normalv is the negation of the object's normal_at(point).
C27_Original ==
    (shade.op = "prepare" /\ shade.out.kind = "ok") =>
        /\ FGe(Tuple4_dot(shade.out.val.normalv, shade.out.val.eyev), FInt(0))
        /\ shade.out.val.inside <=>
               TupleEq(shade.out.val.normalv, Tuple4_negate(PreparedNormal))

\* C27: after PreparedComputations::new, inside is true exactly when the
\* stored normalv is the negation of the object's normal_at(point), and
\* dot(normalv, eyev) >= 0 unless the point is the centre of the object;
\* there the normal and the dot product are NaN, inside is false and the
\* comparison dot >= 0 is false.
C27_NormalFacesEyeOffCentre ==
    (shade.op = "prepare" /\ shade.out.kind = "ok") =>
        LET comps == shade.out.val
            d == Tuple4_dot(comps.normalv, comps.eyev)
        IN /\ comps.inside <=> TupleEq(comps.normalv, Tuple4_negate(PreparedNormal))
           /\ ~PreparedAtCentre => FGe(d, FInt(0))
           /\ PreparedAtCentre => IsNaN(d) /\ ~comps.inside /\ ~FGe(d, FInt(0))

\* a ray from inside the unit sphere: the normal (0, 0, 1) is turned to face
\* the eye
C27_Witness ==
    /\ shade.op = "prepare"
    /\ shade.out.kind = "ok"
    /\ shade.out.val.inside
    /\ ~PreparedAtCentre
    /\ PreparedNormal = Vec(0, 0, 1)
    /\ shade.out.val.normalv = Vec(0, 0, -1)
    /\ shade.out.val.eyev = Vec(0, 0, -1)

-----------------------------------------------------------------------------
(* Claims about Matrix4x4::is_invertible *)

\* C28: is_invertible(M) is true exactly when inverse(M) is Some: both test
\* the same determinant against the same threshold, and a determinant whose
\* absolute value is exactly 1e-12 counts as invertible.
C28_IsInvertibleIffInverseSome ==
    (mOut.op = "is_invertible" /\ InverseCalled) =>
        /\ mOut.res.val <=> mInv.tag = "Some"
        /\ mOut.res.val <=> FGe(FAbs(Matrix4x4_det(mIn)), FDec(1, -12))
        /\ FAbs(Matrix4x4_det(mIn)) = FDec(1, -12) => mOut.res.val

\* a matrix whose determinant is exactly 1e-12: invertible, with an inverse
C28_Witness ==
    /\ mOut.op = "is_invertible"
    /\ InverseCalled
    /\ Matrix4x4_det(mIn) = FDec(1, -12)
    /\ mOut.res.val
    /\ mInv.tag = "Some"

\* a matrix whose determinant is below the threshold and not 0: neither
C28_WitnessBelow ==
    /\ mOut.op = "is_invertible"
    /\ InverseCalled
    /\ ~IsZero(Matrix4x4_det(mIn))
    /\ ~mOut.res.val
    /\ mInv.tag = "None"

-----------------------------------------------------------------------------
(* Claims about clamp_to_u8 *)

\* C25: the channel conversion returns 0 for n <= 0 and 255 for n >= 1;
\* otherwise the integer nearest to 255 * n, an exact half going up (away
\* from zero), so that 0.5 gives 128; the result is always within 0..255
\* (0 for NaN).
C25_ClampRoundsHalfUp ==
    ppm.op = "clamp_to_u8" =>
        LET n == ppm.n
            v == FMul(n, FInt(255))
            o == ppm.out
        IN /\ o \in 0..255
           /\ FLe(n, FInt(0)) => o = 0
           /\ FGe(n, FInt(1)) => o = 255
           /\ (FGt(n, FInt(0)) /\ FLt(n, FInt(1))) =>
                 /\ FLe(FAbs(FSub(FInt(o), v)), FRat(1, 2))
                 /\ FSub(v, FInt(o)) # FRat(1, 2)
           /\ n = FRat(1, 2) => o = 128
           /\ IsNaN(n) => o = 0

\* 2.5 / 255: an exact half whose lower neighbour is even goes to 3
C25_Witness ==
    /\ ppm.op = "clamp_to_u8"
    /\ FMul(ppm.n, FInt(255)) = FRat(5, 2)
    /\ ppm.out = 3

-----------------------------------------------------------------------------
(* Claims about Canvas *)

\* the pixel of the last put_pixel at the position at among puts, or zero
RECURSIVE LastPut(_, _)
LastPut(puts, at) ==
    IF Len(puts) = 0 THEN Tuple_zero
    ELSE IF puts[Len(puts)].at = at THEN puts[Len(puts)].pixel
    ELSE LastPut(SubSeq(puts, 1, Len(puts) - 1), at)

\* what get_pixel(at) returns on the canvas
Stored(at) == Canvas_get_pixel(canvas, at).val

\* C26: a new Canvas(width, height) holds width * height pixels, all zero;
\* after any sequence of put_pixel with 0 <= x < width and 0 <= y < height,
\* get_pixel((x, y)) returns the color of the last put_pixel at (x, y), or
\* zero when there was none; each put_pixel changes only the addressed
\* pixel, and the number of pixels stays width * height.
C26_CanvasKeepsLastPut ==
    /\ [](/\ Len(canvas.pixels) = canvas.width * canvas.height
          /\ ppm.op = "new" => \A i \in 1..Len(canvas.pixels) : canvas.pixels[i] = Tuple_zero
          /\ ppm.kind = "ok"
          /\ \A x \in 0..(canvas.width - 1) : \A y \in 0..(canvas.height - 1) :
                Stored(<<x, y>>) = LastPut(ppm.puts, <<x, y>>)
          /\ ppm.op = "get_pixel" => ppm.val = LastPut(ppm.puts, ppm.at))
    /\ [][ppm'.op = "put_pixel" =>
            /\ Len(canvas'.pixels) = Len(canvas.pixels)
            /\ canvas'.width = canvas.width /\ canvas'.height = canvas.height
            /\ \A x \in 0..(canvas.width - 1) : \A y \in 0..(canvas.height - 1) :
                  Canvas_get_pixel(canvas', <<x, y>>).val =
                      IF <<x, y>> = ppm'.at THEN ppm'.pixel ELSE Stored(<<x, y>>)]_vars

\* a pixel put twice and read back with the second color, next to a pixel
\* that was never put
C26_Witness ==
    /\ ppm.op = "get_pixel"
    /\ Len(ppm.puts) = 2
    /\ ppm.puts[1].at = ppm.at
    /\ ppm.puts[2].at = ppm.at
    /\ ppm.puts[1].pixel # ppm.puts[2].pixel
    /\ ppm.val = ppm.puts[2].pixel
    /\ canvas.width = 2 /\ canvas.height = 2
    /\ ppm.at = <<1, 0>>
    /\ Stored(<<0, 1>>) = Tuple_zero

\* C29: put_pixel and get_pixel address the flat index y * width + x and do
\* not check x against the width: a call with x >= width whose index is
\* below width * height is not rejected, and reads or overwrites the pixel
\* at column x mod width of row y + x div width; only an index
\* >= width * height aborts.
C29_ColumnPastWidthWraps ==
    ppm.op \in {"put_pixel", "get_pixel"} =>
        LET x == ppm.at[1]
            y == ppm.at[2]
            w == canvas.width
            h == canvas.height
        IN /\ ppm.kind = "panic" <=> y * w + x >= w * h
           /\ ppm.kind = "ok" =>
                LET row == y + (x \div w)
                    col == x % w
                IN /\ row < h
                   /\ ppm.op = "get_pixel" => ppm.val = Marked(w, h).pixels[row * w + col + 1]
                   /\ ppm.op = "put_pixel" =>
                         /\ Stored(<<col, row>>) = ppm.pixel
                         /\ \A i \in 1..Len(canvas.pixels) :
                               i # row * w + col + 1 => canvas.pixels[i] = Marked(w, h).pixels[i]

\* put_pixel at (2, 0) on a canvas of width 2: the pixel of column 0, row 1
C29_Witness ==
    /\ ppm.op = "put_pixel"
    /\ ppm.kind = "ok"
    /\ canvas.width = 2 /\ canvas.height = 2
    /\ ppm.at = <<2, 0>>
    /\ Stored(<<0, 1>>) = ppm.pixel
    /\ Stored(<<0, 0>>) = Marked(2, 2).pixels[1]

-----------------------------------------------------------------------------
(* Claims about PPMEncoder::write *)

\* the strings of a sequence, one after the other
RECURSIVE Flatten(_)
Flatten(chunks) ==
    IF Len(chunks) = 0 THEN <<>> ELSE Flatten(SubSeq(chunks, 1, Len(chunks) - 1)) \o chunks[Len(chunks)]

\* everything the writer has accepted
Emitted == Flatten(ppm.out)

\* the positions of the characters of text that are in chars
PositionsOf(text, chars) == {i \in 1..Len(text) : text[i] \in chars}

\* the k-th smallest element of the set ps of positions; 0 for k = 0
Nth(ps, k) == IF k = 0 THEN 0 ELSE CHOOSE q \in ps : Cardinality({r \in ps : r < q}) = k - 1

\* the k-th piece of text between characters of chars
Piece(text, chars, k) ==
    SubSeq(text, Nth(PositionsOf(text, chars), k - 1) + 1, Nth(PositionsOf(text, chars), k) - 1)

\* the character that ends the k-th piece
EndOf(text, chars, k) == text[Nth(PositionsOf(text, chars), k)]

\* the number that a string of decimal digits denotes, -1 for another string
RECURSIVE ParseDec(_)
ParseDec(tok) ==
    IF Len(tok) = 0 \/ \E i \in 1..Len(tok) : tok[i] \notin {DigitChar(d) : d \in 0..9} THEN -1
    ELSE IF Len(tok) = 1 THEN CHOOSE d \in 0..9 : DigitChar(d) = tok[1]
    ELSE 10 * ParseDec(SubSeq(tok, 1, Len(tok) - 1)) + ParseDec(<<tok[Len(tok)]>>)

\* tok is the decimal notation of n, without a leading zero
Denotes(tok, n) == ParseDec(tok) = n /\ (Len(tok) > 1 => tok[1] # "0")

Blank == {" ", "\n"}

\* the text is the three header lines of a width x height image, then the
\* triples of the colors in order, each followed by a newline when its
\* 1-based position is a multiple of width and by a space otherwise
IsPpmText(text, width, height, colors) ==
    /\ Cardinality(PositionsOf(text, Blank)) = 4 + 3 * Len(colors)
    /\ text[Len(text)] \in Blank
    /\ Piece(text, {"\n"}, 1) = <<"P", "3">>
    /\ Piece(text, {"\n"}, 3) = <<"2", "5", "5">>
    /\ Denotes(Piece(text, Blank, 2), width) /\ EndOf(text, Blank, 2) = " "
    /\ Denotes(Piece(text, Blank, 3), height) /\ EndOf(text, Blank, 3) = "\n"
    /\ \A k \in 1..Len(colors) :
          /\ Denotes(Piece(text, Blank, 3 * k + 2), colors[k].r)
          /\ EndOf(text, Blank, 3 * k + 2) = " "
          /\ Denotes(Piece(text, Blank, 3 * k + 3), colors[k].g)
          /\ EndOf(text, Blank, 3 * k + 3) = " "
          /\ Denotes(Piece(text, Blank, 3 * k + 4), colors[k].b)
          /\ EndOf(text, Blank, 3 * k + 4) = (IF k % width = 0 THEN "\n" ELSE " ")

\* after the header the text is height lines of width triples each
HasRows(text, width, height) ==
    /\ Cardinality(PositionsOf(text, {"\n"})) = 3 + height
    /\ \A j \in 1..height :
          Cardinality(PositionsOf(Piece(text, {"\n"}, 3 + j), {" "})) = 3 * width - 1

\* write is over and no write_all returned an error
WroteAll == ppm.op = "write" /\ ppm.pc = "done" /\ ppm.failed = 0

\* C24: write emits the three header lines P3, "<width> <height>", 255 and
\* then every color in order as "R G B", each triple followed by a newline
\* when its 1-based position is a multiple of width and by a single space
\* otherwise; for width * height colors the pixel data is exactly height
\* lines, each with width triples.
C24_WriteEmitsHeaderAndRows ==
    WroteAll =>
        /\ ppm.result = "ok"
        /\ IsPpmText(Emitted, ppm.image.width, ppm.image.height, ppm.image.colors)
        /\ Len(ppm.image.colors) = ppm.image.width * ppm.image.height =>
              HasRows(Emitted, ppm.image.width, ppm.image.height)

\* the same for the images whose width is not 0
C24_RowsForPositiveWidth == ppm.image.width > 0 => C24_WriteEmitsHeaderAndRows

\* a 2 x 2 image written in full: two lines of two triples
C24_FullImage ==
    /\ WroteAll
    /\ ppm.result = "ok"
    /\ ppm.image.width = 2 /\ ppm.image.height = 2 /\ Len(ppm.image.colors) = 4
    /\ ppm.image.colors[2] = [r |-> 0, g |-> 128, b |-> 0]
    /\ Piece(Emitted, {"\n"}, 4) =
          TripleText(ppm.image.colors[1]) \o <<" ", "0", " ", "1", "2", "8", " ", "0">>

\* the k-th accepted string is the header for k = 1 and the triple of the
\* color of index k - 2 after it
InOrder(k) ==
    IF k = 1
    THEN /\ Piece(ppm.out[1], Blank, 1) = <<"P", "3">>
         /\ Denotes(Piece(ppm.out[1], Blank, 2), ppm.image.width)
         /\ Denotes(Piece(ppm.out[1], Blank, 3), ppm.image.height)
    ELSE /\ Denotes(Piece(ppm.out[k], Blank, 1), ppm.image.colors[k - 1].r)
         /\ Denotes(Piece(ppm.out[k], Blank, 2), ppm.image.colors[k - 1].g)
         /\ Denotes(Piece(ppm.out[k], Blank, 3), ppm.image.colors[k - 1].b)

\* C30: write performs its writes in order, the header first and then the
\* pixels in index order; when a write to the writer fails, write returns
\* that error at once and issues no further write: after a failed header
\* write no pixel data is written, and after a failure at the pixel i the
\* pixels after i are not written.
C30_WritesInOrderStopAtError ==
    /\ [](ppm.op = "write" =>
            /\ \A k \in 1..Len(ppm.out) : InOrder(k)
            /\ Len(ppm.out) <= 1 + Len(ppm.image.colors)
            /\ ppm.failed = 0 => ppm.calls = Len(ppm.out)
            /\ ppm.failed # 0 =>
                  /\ ppm.result = "err"
                  /\ ppm.pc = "done"
                  /\ ppm.failed = ppm.calls
                  /\ Len(ppm.out) = ppm.failed - 1
            /\ ppm.result = "ok" => Len(ppm.out) = 1 + Len(ppm.image.colors))
    /\ [][/\ ppm.failed = 0
          /\ ppm.pc # "done"
          /\ ppm'.calls \in {ppm.calls, ppm.calls + 1}
          /\ Len(ppm'.out) >= Len(ppm.out)
          /\ SubSeq(ppm'.out, 1, Len(ppm.out)) = ppm.out]_vars

\* the write of the second pixel of four fails: the header and the first
\* pixel are written, the last two pixels are not
C30_Witness ==
    /\ ppm.op = "write"
    /\ Len(ppm.image.colors) = 4
    /\ ppm.failed = 3
    /\ ppm.i = 1
    /\ Len(ppm.out) = 2
    /\ ppm.result = "err"

====
